---- MODULE Spec2Model ----
(***************************************************************************)
(* A model of dwarffi's content-addressed type registry                    *)
(* (src/src/type_registry.rs), of the per-unit type resolver               *)
(* (src/src/type_resolver.rs) and of the function extractor                *)
(* (src/dwarffi/src/dwarf_analyzer.rs).                                    *)
(*                                                                         *)
(* Conventions.                                                            *)
(*   Option<T>     : None is <<>>, Some(x) is <<x>>.                       *)
(*   HashMap<K,V>  : a function whose DOMAIN is the key set.               *)
(*   String        : a TLA+ string of NameTable; String::cmp is the order  *)
(*                   of NameTable (byte-lexicographic order).              *)
(*   TypeId        : the 64-bit digest of the bincode bytes of a record's  *)
(*                   canonical form.  The digest is modelled as            *)
(*                   collision-free: a TypeId is the sequence of words     *)
(*                   that was hashed.  TypeId(n) written by a caller is    *)
(*                   <<n>>.                                                *)
(***************************************************************************)
EXTENDS Integers, Sequences, FiniteSets, TLC

VARIABLES
    regs,   \* the TypeRegistry values under test, by name
    hist,   \* the last two completed calls, newest first
    nops,   \* number of calls made so far
    inserted, \* per registry: each TypeId with the content its record was inserted with
    overflow_checks,   \* the build: TRUE where integer overflow panics (debug),
                       \* FALSE where it wraps (release)
    dwarf,             \* extract_analysis: the compilation units of the binary
    exported_symbols,  \* Option<HashSet<String>>: Some(symbols) iff exported_only
    pc,                \* where extract_analysis stands
    unit_count,        \* units taken from unit_iter
    die_pos,           \* DIEs of the unit that entries.next_dfs() has returned
    type_registry,     \* the registry of the unit's TypeResolver
    signatures,        \* the signatures of the unit so far
    sig,               \* the subprogram being extracted
    all_signatures,
    combined_registry,
    resolved           \* per offset: the TypeIds its successful resolutions returned

registry_vars == <<regs, hist, nops, inserted>>

analysis_vars ==
    <<overflow_checks, dwarf, exported_symbols, pc, unit_count, die_pos, type_registry, signatures,
      sig, all_signatures, combined_registry, resolved>>

vars == <<regs, hist, nops, inserted, overflow_checks, dwarf, exported_symbols, pc, unit_count,
          die_pos, type_registry, signatures, sig, all_signatures,
          combined_registry, resolved>>

-----------------------------------------------------------------------------
(* Option<T> *)

None == <<>>

Some(x) == <<x>>

IsSome(o) == o # <<>>

Unwrap(o) == o[1]

(* HashMap helpers *)

EmptyMap == <<>>

ContainsKey(m, k) == k \in DOMAIN m

\* HashMap::insert: the new value replaces an old one
Insert(m, k, v) == (k :> v) @@ m

\* HashMap::get
Get(m, k) == IF k \in DOMAIN m THEN Some(m[k]) ELSE None

-----------------------------------------------------------------------------
(* Strings: the names the model uses, in String::cmp order (bytes). *)

NameTable ==
    << "", "<anonymous>", "<array>", "<function>",
       "<unknown:DW_TAG_enumerator>", "<unknown:DW_TAG_formal_parameter>",
       "<unknown:DW_TAG_member>", "<unknown:DW_TAG_subprogram>",
       "<unknown:DW_TAG_subrange_type>", "<unknown:DW_TAG_subroutine_type>",
       "<unknown:DW_TAG_unspecified_parameters>", "<unknown:DW_TAG_variable>",
       "A", "B", "Handle", "Node", "Point",
       "Status", "U", "a", "b", "char", "int", "void", "x", "y" >>

NameRank(n) == CHOOSE i \in 1..Len(NameTable) : NameTable[i] = n

\* a.name.cmp(&b.name) == Ordering::Greater
NameGreater(a, b) == NameRank(a) > NameRank(b)

-----------------------------------------------------------------------------
(* BaseTypeKind and its payloads *)

Primitive(name, size, alignment) ==
    [tag |-> "Primitive", name |-> name, size |-> size, alignment |-> alignment]

Struct(name, fields, size, alignment, is_opaque) ==
    [tag |-> "Struct", name |-> name, fields |-> fields, size |-> size,
     alignment |-> alignment, is_opaque |-> is_opaque]

Union(name, variants, size, alignment) ==
    [tag |-> "Union", name |-> name, variants |-> variants, size |-> size,
     alignment |-> alignment]

Enum(name, backing_id, variants, size) ==
    [tag |-> "Enum", name |-> name, backing_id |-> backing_id,
     variants |-> variants, size |-> size]

Array(element_type_id, count, size) ==
    [tag |-> "Array", element_type_id |-> element_type_id, count |-> count,
     size |-> size]

Typedef(name, aliased_type_id) ==
    [tag |-> "Typedef", name |-> name, aliased_type_id |-> aliased_type_id]

Function(return_type_id, parameter_type_ids, is_variadic) ==
    [tag |-> "Function", return_type_id |-> return_type_id,
     parameter_type_ids |-> parameter_type_ids, is_variadic |-> is_variadic]

StructField(name, type_id, offset, size) ==
    [name |-> name, type_id |-> type_id, offset |-> offset, size |-> size]

UnionField(name, type_id) == [name |-> name, type_id |-> type_id]

EnumVariant(name, value) == [name |-> name, value |-> value]

Type(id, kind, pointer_depth, is_const, is_volatile, dwarf_offset) ==
    [id |-> id, kind |-> kind, pointer_depth |-> pointer_depth,
     is_const |-> is_const, is_volatile |-> is_volatile,
     dwarf_offset |-> dwarf_offset]

-----------------------------------------------------------------------------
(* to_canonical: sort_by(|a, b| a.name.cmp(&b.name)) is a stable sort that *)
(* compares the name only.                                                 *)

RECURSIVE InsertByName(_, _)
\* v goes after every element whose name is not greater than v's
InsertByName(sorted, v) ==
    IF sorted = <<>> THEN <<v>>
    ELSE IF NameGreater(Head(sorted).name, v.name) THEN <<v>> \o sorted
    ELSE <<Head(sorted)>> \o InsertByName(Tail(sorted), v)

RECURSIVE SortedByNameFrom(_, _)
SortedByNameFrom(acc, vs) ==
    IF vs = <<>> THEN acc
    ELSE SortedByNameFrom(InsertByName(acc, Head(vs)), Tail(vs))

\* a mutant: the variant list is serialized in its source order
UnsortedByName(vs) == vs

SortByName(vs) == SortedByNameFrom(<<>>, vs)

\* a mutant: the canonical form sorts every list-carrying kind by name
CanonicalAllSorted(kind) ==
    IF kind.tag \in {"Union", "Enum"}
    THEN [kind EXCEPT !.variants = SortByName(kind.variants)]
    ELSE IF kind.tag = "Struct"
    THEN [kind EXCEPT !.fields = SortByName(kind.fields)]
    ELSE kind

to_canonical(kind) ==
    IF kind.tag \in {"Union", "Enum"}
    THEN [kind EXCEPT !.variants = SortByName(kind.variants)]
    ELSE kind

-----------------------------------------------------------------------------
(* bincode with fixint encoding: one word per integer, bool and string,    *)
(* a length word before the elements of a Vec, a tag word before an        *)
(* Option's value, the variant index before an enum's payload.             *)

BoolWord(b) == IF b THEN 1 ELSE 0

StrWord(s) == NameRank(s)

\* a TypeId is one u64 in the code; here it is the words behind the digest
IdWords(id) == <<Len(id)>> \o id

RECURSIVE ConcatAll(_)
ConcatAll(ss) == IF ss = <<>> THEN <<>> ELSE Head(ss) \o ConcatAll(Tail(ss))

VecWords(items) == <<Len(items)>> \o ConcatAll(items)

OptionIdWords(o) == IF IsSome(o) THEN <<1>> \o IdWords(Unwrap(o)) ELSE <<0>>

FieldWords(f) == <<StrWord(f.name)>> \o IdWords(f.type_id) \o <<f.offset, f.size>>

UnionVariantWords(v) == <<StrWord(v.name)>> \o IdWords(v.type_id)

EnumVariantWords(v) == <<StrWord(v.name), v.value>>

KindWords(c) ==
    CASE c.tag = "Primitive" ->
           <<0, StrWord(c.name), c.size, c.alignment>>
      [] c.tag = "Struct" ->
           <<1, StrWord(c.name)>>
           \o VecWords([i \in 1..Len(c.fields) |-> FieldWords(c.fields[i])])
           \o <<c.size, c.alignment, BoolWord(c.is_opaque)>>
      [] c.tag = "Union" ->
           <<2, StrWord(c.name)>>
           \o VecWords([i \in 1..Len(c.variants) |-> UnionVariantWords(c.variants[i])])
           \o <<c.size, c.alignment>>
      [] c.tag = "Enum" ->
           <<3, StrWord(c.name)>> \o IdWords(c.backing_id)
           \o VecWords([i \in 1..Len(c.variants) |-> EnumVariantWords(c.variants[i])])
           \o <<c.size>>
      [] c.tag = "Array" ->
           <<4>> \o IdWords(c.element_type_id) \o <<c.count, c.size>>
      [] c.tag = "Typedef" ->
           <<5, StrWord(c.name)>> \o IdWords(c.aliased_type_id)
      [] c.tag = "Function" ->
           <<6>> \o OptionIdWords(c.return_type_id)
           \o VecWords([i \in 1..Len(c.parameter_type_ids)
                           |-> IdWords(c.parameter_type_ids[i])])
           \o <<BoolWord(c.is_variadic)>>

\* DefaultHasher over the serialized bytes, taken as collision-free
DefaultHasher(bytes) == bytes

compute_type_id(kind, pointer_depth, is_const, is_volatile) ==
    DefaultHasher(KindWords(to_canonical(kind))
                  \o <<pointer_depth, BoolWord(is_const), BoolWord(is_volatile)>>)

-----------------------------------------------------------------------------
(* Type::get_name *)

get_name(type_) ==
    CASE type_.kind.tag = "Array" -> "<array>"
      [] type_.kind.tag = "Function" -> "<function>"
      [] OTHER -> type_.kind.name

-----------------------------------------------------------------------------
(* TypeRegistry *)

TypeRegistryNew ==
    [types |-> EmptyMap, dwarf_to_id |-> EmptyMap, name_to_ids |-> EmptyMap]

\* the id pushed twice
PushNameTwice(name_to_ids, name, id) ==
    IF ContainsKey(name_to_ids, name)
    THEN [name_to_ids EXCEPT ![name] = Append(Append(@, id), id)]
    ELSE Insert(name_to_ids, name, <<id, id>>)

\* name_to_ids.entry(name).or_insert_with(Vec::new).push(id)
PushName(name_to_ids, name, id) ==
    IF ContainsKey(name_to_ids, name)
    THEN [name_to_ids EXCEPT ![name] = Append(@, id)]
    ELSE Insert(name_to_ids, name, <<id>>)

\* The record register_type stores when the computed id is not a key yet.
Inserted(self, type_, id) ==
    LET stored == [type_ EXCEPT !.id = id] IN
    [types       |-> Insert(self.types, id, stored),
     dwarf_to_id |-> IF IsSome(type_.dwarf_offset)
                     THEN Insert(self.dwarf_to_id, Unwrap(type_.dwarf_offset), id)
                     ELSE self.dwarf_to_id,
     name_to_ids |-> PushName(self.name_to_ids, get_name(stored), id)]

\* register_type once the id is computed: an id that is a key already is
\* returned and nothing is stored
RegisterAs(self, type_, id) ==
    IF ContainsKey(self.types, id)
    THEN [reg |-> self, id |-> id]
    ELSE [reg |-> Inserted(self, type_, id), id |-> id]

\* a mutant: the caller's id field is trusted instead of the computed one
RegisterTypeTrustingId(self, type_) ==
    LET id == IF type_.id = <<0>>
              THEN compute_type_id(type_.kind, type_.pointer_depth,
                                   type_.is_const, type_.is_volatile)
              ELSE type_.id
    IN IF ContainsKey(self.types, id)
       THEN [reg |-> self, id |-> id]
       ELSE [reg |-> Inserted(self, type_, id), id |-> id]

\* a mutant: the id field of the stored record is left as the caller gave it
RegisterTypeKeepingIdField(self, type_) ==
    LET id == compute_type_id(type_.kind, type_.pointer_depth,
                              type_.is_const, type_.is_volatile)
    IN IF ContainsKey(self.types, id)
       THEN [reg |-> self, id |-> id]
       ELSE [reg |-> [Inserted(self, type_, id)
                        EXCEPT !.types = Insert(self.types, id, type_)],
             id |-> id]

\* a mutant: the offset index is written before the duplicate check
RegisterTypeIndexingFirst(self, type_) ==
    LET id == compute_type_id(type_.kind, type_.pointer_depth,
                              type_.is_const, type_.is_volatile)
        indexed == IF IsSome(type_.dwarf_offset)
                   THEN [self EXCEPT !.dwarf_to_id =
                            Insert(@, Unwrap(type_.dwarf_offset), id)]
                   ELSE self
    IN IF ContainsKey(self.types, id)
       THEN [reg |-> indexed, id |-> id]
       ELSE [reg |-> Inserted(self, type_, id), id |-> id]

\* register_type: the registry after the call and the TypeId returned
register_type(self, type_) ==
    RegisterAs(self, type_, compute_type_id(type_.kind, type_.pointer_depth,
                                            type_.is_const, type_.is_volatile))

get_type(self, id) == Get(self.types, id)

get_by_dwarf_offset(self, offset) ==
    IF ContainsKey(self.dwarf_to_id, offset)
    THEN Get(self.types, self.dwarf_to_id[offset])
    ELSE None

RECURSIVE FilterMapGet(_, _)
\* ids.iter().filter_map(|id| self.types.get(id)).collect()
FilterMapGet(types, ids) ==
    IF ids = <<>> THEN <<>>
    ELSE (IF ContainsKey(types, Head(ids)) THEN <<types[Head(ids)]>> ELSE <<>>)
         \o FilterMapGet(types, Tail(ids))

get_by_name(self, name) ==
    IF ContainsKey(self.name_to_ids, name)
    THEN FilterMapGet(self.types, self.name_to_ids[name])
    ELSE <<>>

len(self) == Cardinality(DOMAIN self.types)

RECURSIVE PushMissing(_, _)
\* for id in ids { if !existing.contains(&id) { existing.push(id) } }
PushMissing(existing, ids) ==
    IF ids = <<>> THEN existing
    ELSE PushMissing(
            IF \E i \in 1..Len(existing) : existing[i] = Head(ids)
            THEN existing ELSE Append(existing, Head(ids)),
            Tail(ids))

\* a mutant: a colliding key takes the incoming record and offset mapping
MergeOtherWins(self, other) ==
    [types |-> other.types @@ self.types,
     name_to_ids |->
        [n \in DOMAIN self.name_to_ids \cup DOMAIN other.name_to_ids |->
            PushMissing(IF ContainsKey(self.name_to_ids, n)
                        THEN self.name_to_ids[n] ELSE <<>>,
                        IF ContainsKey(other.name_to_ids, n)
                        THEN other.name_to_ids[n] ELSE <<>>)],
     dwarf_to_id |-> other.dwarf_to_id @@ self.dwarf_to_id]

\* a mutant: the name lists are appended without the contains() test
MergeNoDedup(self, other) ==
    [types |-> self.types @@ other.types,
     name_to_ids |->
        [n \in DOMAIN self.name_to_ids \cup DOMAIN other.name_to_ids |->
            (IF ContainsKey(self.name_to_ids, n)
             THEN self.name_to_ids[n] ELSE <<>>)
            \o (IF ContainsKey(other.name_to_ids, n)
                THEN other.name_to_ids[n] ELSE <<>>)],
     dwarf_to_id |-> self.dwarf_to_id @@ other.dwarf_to_id]

\* a mutant: the name index of the other registry is not merged
MergeNoNames(self, other) ==
    [types |-> self.types @@ other.types,
     name_to_ids |-> self.name_to_ids,
     dwarf_to_id |-> self.dwarf_to_id @@ other.dwarf_to_id]

\* merge: the registry self after self.merge(other)
merge(self, other) ==
    [types |-> self.types @@ other.types,
     name_to_ids |->
        [n \in DOMAIN self.name_to_ids \cup DOMAIN other.name_to_ids |->
            PushMissing(IF ContainsKey(self.name_to_ids, n)
                        THEN self.name_to_ids[n] ELSE <<>>,
                        IF ContainsKey(other.name_to_ids, n)
                        THEN other.name_to_ids[n] ELSE <<>>)],
     dwarf_to_id |-> self.dwarf_to_id @@ other.dwarf_to_id]

-----------------------------------------------------------------------------
(* DWARF input.  A compilation unit maps the offsets of its DIEs to their  *)
(* tag and attributes: an attribute that is absent is None, a type         *)
(* reference is Some(offset) for a UnitRef and Some(0) for any other form.  *)
(* children are the offsets of the direct children, in order.               *)

Die(tag, name, type, byte_size, children) ==
    [tag |-> tag, name |-> name, type |-> type, byte_size |-> byte_size,
     children |-> children, declaration |-> None, artificial |-> None,
     linkage_name |-> None, specification |-> None, abstract_origin |-> None,
     data_member_location |-> None, const_value |-> None,
     count |-> None, upper_bound |-> None]

\* if let AttributeValue::UnitRef(offset) = attr.value()
IsUnitRef(attr) == IsSome(attr) /\ Unwrap(attr) > 0

\* outcome of a fallible resolver call: the registry as the call left it,
\* and Ok(val), Err, or no return at all (unbounded recursion or looping)
Ok(reg, val) == [st |-> "Ok", reg |-> reg, val |-> val]

Err(reg) == [st |-> "Err", reg |-> reg, val |-> <<>>]

Diverged(reg) == [st |-> "Diverged", reg |-> reg, val |-> <<>>]

\* the thread panicked: attempt to add / multiply with overflow
Panicked(reg) == [st |-> "Panicked", reg |-> reg, val |-> <<>>]

\* u64 and usize: 64 bits wide in the program, scaled to 8 bits here
UsizeMax == 255

\* a + b and a * b on usize: the exact value when it fits, otherwise a panic
\* with overflow checks and the value modulo 2^width without
Arith(reg, exact) ==
    IF exact <= UsizeMax THEN Ok(reg, exact)
    ELSE IF overflow_checks THEN Panicked(reg)
    ELSE Ok(reg, exact % (UsizeMax + 1))

VoidKind == Primitive("void", 0, 1)

\* TypeResolver::get_name: Err when the entry has no name attribute
HasName(entry) == IsSome(entry.name)

\* a mutant: the void id is computed but the record is not registered
GetVoidWithoutRegistering(reg) ==
    [reg |-> reg, id |-> compute_type_id(VoidKind, 0, FALSE, FALSE)]

\* a mutant: the newest record named "void" is taken
GetVoidTakingLast(reg) ==
    LET void_types == get_by_name(reg, "void") IN
    IF void_types # <<>>
    THEN [reg |-> reg, id |-> void_types[Len(void_types)].id]
    ELSE register_type(reg, Type(<<0>>, VoidKind, 0, FALSE, FALSE, None))

get_or_create_void_type(reg) ==
    LET void_types == get_by_name(reg, "void") IN
    IF void_types # <<>>
    THEN [reg |-> reg, id |-> void_types[1].id]
    ELSE register_type(reg, Type(<<0>>, VoidKind, 0, FALSE, FALSE, None))

get_or_create_int_type(reg) ==
    LET int_types == get_by_name(reg, "int") IN
    IF int_types # <<>>
    THEN [reg |-> reg, id |-> int_types[1].id]
    ELSE register_type(reg, Type(<<0>>, Primitive("int", 4, 4), 0, FALSE, FALSE, None))

\* .and_then(|attr| attr.udata_value()).unwrap_or(default)
UnwrapOr(attr, default) == IF IsSome(attr) THEN Unwrap(attr) ELSE default

extract_primitive_type(reg, entry) ==
    IF ~HasName(entry) THEN Err(reg)
    ELSE LET size == UnwrapOr(entry.byte_size, 0) IN
         Ok(reg, Primitive(Unwrap(entry.name), size, size))

\* the size a struct field or an array element takes from its type
SizeOfKind(kind) ==
    IF kind.tag \in {"Primitive", "Struct", "Array"} THEN kind.size ELSE 0

\* extract_array_count: the first subrange child with a count or an upper
\* bound; (upper + 1) as usize
RECURSIVE extract_array_count(_, _, _)
extract_array_count(u, reg, children) ==
    IF children = <<>> THEN Ok(reg, 0)
    ELSE LET entry == u[Head(children)] IN
         IF entry.tag = "subrange_type" /\ IsSome(entry.count)
         THEN Ok(reg, Unwrap(entry.count))
         ELSE IF entry.tag = "subrange_type" /\ IsSome(entry.upper_bound)
         THEN Arith(reg, Unwrap(entry.upper_bound) + 1)
         ELSE extract_array_count(u, reg, Tail(children))

RECURSIVE extract_enum_variants(_, _)
extract_enum_variants(u, children) ==
    IF children = <<>> THEN <<>>
    ELSE LET entry == u[Head(children)] IN
         (IF entry.tag = "enumerator"
          THEN <<EnumVariant(UnwrapOr(entry.name, ""), UnwrapOr(entry.const_value, 0))>>
          ELSE <<>>)
         \o extract_enum_variants(u, Tail(children))

MaxOf(S, default) == IF S = {} THEN default ELSE CHOOSE m \in S : \A x \in S : x <= m

\* struct alignment: fields.iter().map(|f| f.size).max().unwrap_or(1)
StructAlignment(fields) == MaxOf({ fields[i].size : i \in 1..Len(fields) }, 1)

\* union alignment: the largest alignment of a Primitive or Struct variant
UnionAlignment(reg, variants) ==
    MaxOf({ reg.types[variants[i].type_id].kind.alignment :
              i \in { j \in 1..Len(variants) :
                        /\ ContainsKey(reg.types, variants[j].type_id)
                        /\ reg.types[variants[j].type_id].kind.tag
                              \in {"Primitive", "Struct"} } }, 1)

RECURSIVE build_type_registry_entry(_, _, _, _)
RECURSIVE extract_type_metadata(_, _, _, _, _, _, _, _)
RECURSIVE extract_struct_fields(_, _, _, _, _)
RECURSIVE extract_union_fields(_, _, _, _, _)
RECURSIVE StructFieldsWith(_, _, _, _, _)
RECURSIVE UnionFieldsWith(_, _, _, _, _)

\* Ok(id) of a registry call that returned the registry and an id
OkId(r) == Ok(r.reg, r.id)

\* the typedef of an aliased type that resolved, or the failure to resolve it
TypedefOf(entry, aliased) ==
    IF aliased.st # "Ok" THEN aliased
    ELSE Ok(aliased.reg, Typedef(Unwrap(entry.name), aliased.val))

\* the type reference of a typedef: the resolved type, or void
extract_typedef_type(u, reg, entry, active) ==
    IF ~HasName(entry) THEN Err(reg)
    ELSE TypedefOf(entry,
            IF IsUnitRef(entry.type)
            THEN build_type_registry_entry(u, reg, Unwrap(entry.type), active)
            ELSE OkId(get_or_create_void_type(reg)))

\* the field a member makes once its type t has resolved
FieldOf(entry, t) ==
    StructField(UnwrapOr(entry.name, ""), t.val,
                UnwrapOr(entry.data_member_location, 0),
                IF ContainsKey(t.reg.types, t.val)
                THEN SizeOfKind(t.reg.types[t.val].kind) ELSE 0)

\* extract_struct_fields after the type of the first child was asked for
StructFieldsWith(u, children, fields, active, t) ==
    IF t.st # "Ok" THEN t
    ELSE extract_struct_fields(u, t.reg, Tail(children),
                               Append(fields, FieldOf(u[Head(children)], t)), active)

\* children tagged member with a UnitRef type, in child order
extract_struct_fields(u, reg, children, fields, active) ==
    IF children = <<>> THEN Ok(reg, fields)
    ELSE LET entry == u[Head(children)] IN
         IF entry.tag # "member" \/ ~IsUnitRef(entry.type)
         THEN extract_struct_fields(u, reg, Tail(children), fields, active)
         ELSE StructFieldsWith(u, children, fields, active,
                 build_type_registry_entry(u, reg, Unwrap(entry.type), active))

\* extract_union_fields after the type of the first child was asked for
UnionFieldsWith(u, children, variants, active, t) ==
    IF t.st # "Ok" THEN t
    ELSE extract_union_fields(u, t.reg, Tail(children),
            Append(variants, UnionField(UnwrapOr(u[Head(children)].name, ""), t.val)),
            active)

extract_union_fields(u, reg, children, variants, active) ==
    IF children = <<>> THEN Ok(reg, variants)
    ELSE LET entry == u[Head(children)] IN
         IF entry.tag # "member" \/ ~IsUnitRef(entry.type)
         THEN extract_union_fields(u, reg, Tail(children), variants, active)
         ELSE UnionFieldsWith(u, children, variants, active,
                 build_type_registry_entry(u, reg, Unwrap(entry.type), active))

\* the struct of the fields fs, or the failure to extract them
StructOf(entry, size, fs) ==
    IF fs.st # "Ok" THEN fs
    ELSE Ok(fs.reg, Struct(UnwrapOr(entry.name, "<anonymous>"), fs.val, size,
                           StructAlignment(fs.val),
                           size = 0 /\ IsSome(entry.declaration)))

extract_struct_type(u, reg, entry, active) ==
    StructOf(entry, UnwrapOr(entry.byte_size, 0),
             extract_struct_fields(u, reg, entry.children, <<>>, active))

\* the union of the variants vs, or the failure to extract them
UnionOf(entry, vs) ==
    IF vs.st # "Ok" THEN vs
    ELSE Ok(vs.reg, Union(UnwrapOr(entry.name, "<anonymous>"), vs.val,
                          UnwrapOr(entry.byte_size, 0), UnionAlignment(vs.reg, vs.val)))

extract_union_type(u, reg, entry, active) ==
    UnionOf(entry, extract_union_fields(u, reg, entry.children, <<>>, active))

\* the enum over the backing type, or the failure to resolve that type
EnumOf(u, entry, backing) ==
    IF backing.st # "Ok" THEN backing
    ELSE Ok(backing.reg, Enum(UnwrapOr(entry.name, "<anonymous>"), backing.val,
                              extract_enum_variants(u, entry.children),
                              UnwrapOr(entry.byte_size, 4)))

extract_enum_type(u, reg, entry, active) ==
    EnumOf(u, entry,
           IF IsUnitRef(entry.type)
           THEN build_type_registry_entry(u, reg, Unwrap(entry.type), active)
           ELSE OkId(get_or_create_int_type(reg)))

\* the array of the element type elem, count taken from the subrange child
\* BaseTypeKind::Array { element_type_id, count, size: total_size }
ArraySized(element_type_id, count, total_size) ==
    IF total_size.st # "Ok" THEN total_size
    ELSE Ok(total_size.reg, Array(element_type_id, count, total_size.val))

\* let total_size = element_size * count
ArrayCounted(elem, count) ==
    IF count.st # "Ok" THEN count
    ELSE IF ~ContainsKey(elem.reg.types, elem.val) THEN Err(elem.reg)
    ELSE ArraySized(elem.val, count.val,
            Arith(elem.reg, SizeOfKind(elem.reg.types[elem.val].kind) * count.val))

ArrayOf(u, entry, elem) ==
    IF elem.st # "Ok" THEN elem
    ELSE ArrayCounted(elem, extract_array_count(u, elem.reg, entry.children))

extract_array_type(u, reg, entry, active) ==
    IF ~IsUnitRef(entry.type) THEN Err(reg)
    ELSE ArrayOf(u, entry,
                 build_type_registry_entry(u, reg, Unwrap(entry.type), active))

\* the name format!("<unknown:{}>", entry.tag()) gives, for the tags of
\* the units below that extract_type_metadata has no case for
UnknownName(tag) ==
    CASE tag = "subroutine_type" -> "<unknown:DW_TAG_subroutine_type>"
      [] tag = "subprogram" -> "<unknown:DW_TAG_subprogram>"
      [] tag = "member" -> "<unknown:DW_TAG_member>"
      [] tag = "enumerator" -> "<unknown:DW_TAG_enumerator>"
      [] tag = "subrange_type" -> "<unknown:DW_TAG_subrange_type>"
      [] tag = "formal_parameter" -> "<unknown:DW_TAG_formal_parameter>"
      [] tag = "unspecified_parameters" -> "<unknown:DW_TAG_unspecified_parameters>"
      [] tag = "variable" -> "<unknown:DW_TAG_variable>"

\* the record registered without the const qualifier of the metadata
RegisterResolvedWithoutConst(offset, m) ==
    IF m.st # "Ok" THEN m
    ELSE OkId(register_type(m.reg,
                 Type(<<0>>, m.val.kind, m.val.pointer_depth,
                      FALSE, m.val.is_volatile, Some(offset))))

\* the end of build_type_registry_entry: the record made of the metadata m
\* is registered with its offset, unless extracting m failed
RegisterResolved(offset, m) ==
    IF m.st # "Ok" THEN m
    ELSE OkId(register_type(m.reg,
                 Type(<<0>>, m.val.kind, m.val.pointer_depth,
                      m.val.is_const, m.val.is_volatile, Some(offset))))

\* The loop of extract_type_metadata from current_offset on, with the
\* qualifiers gathered so far.  seen holds the offsets the loop has passed:
\* coming back to one of them, the loop never ends.
extract_type_metadata(u, reg, current_offset, pointer_depth, is_const, is_volatile, seen, active) ==
    IF ~ContainsKey(u, current_offset) THEN Err(reg)
    ELSE IF current_offset \in seen THEN Diverged(reg)
    ELSE
    LET entry == u[current_offset]
        Done(k) == IF k.st # "Ok" THEN k
                   ELSE Ok(k.reg, [kind |-> k.val, pointer_depth |-> pointer_depth,
                                   is_const |-> is_const, is_volatile |-> is_volatile])
        Void(pd, c, v) == Ok(reg, [kind |-> VoidKind, pointer_depth |-> pd,
                                   is_const |-> c, is_volatile |-> v])
        Follow(pd, c, v) ==
            extract_type_metadata(u, reg, Unwrap(entry.type), pd, c, v,
                                  seen \cup {current_offset}, active)
    IN CASE entry.tag = "pointer_type" ->
              IF IsUnitRef(entry.type) THEN Follow(pointer_depth + 1, is_const, is_volatile)
              ELSE Void(pointer_depth + 1, is_const, is_volatile)
         [] entry.tag = "const_type" ->
              IF IsUnitRef(entry.type) THEN Follow(pointer_depth, TRUE, is_volatile)
              ELSE Void(pointer_depth, TRUE, is_volatile)
         [] entry.tag = "volatile_type" ->
              IF IsUnitRef(entry.type) THEN Follow(pointer_depth, is_const, TRUE)
              ELSE Void(pointer_depth, is_const, TRUE)
         [] entry.tag = "base_type" -> Done(extract_primitive_type(reg, entry))
         [] entry.tag = "typedef" -> Done(extract_typedef_type(u, reg, entry, active))
         [] entry.tag = "structure_type" -> Done(extract_struct_type(u, reg, entry, active))
         [] entry.tag = "union_type" -> Done(extract_union_type(u, reg, entry, active))
         [] entry.tag = "enumeration_type" -> Done(extract_enum_type(u, reg, entry, active))
         [] entry.tag = "array_type" -> Done(extract_array_type(u, reg, entry, active))
         [] OTHER -> Done(Ok(reg, Primitive(UnknownName(entry.tag), 0, 1)))

\* build_type_registry_entry(offset).  active holds the offsets whose
\* resolution is in progress further up the call stack: none of them is in
\* the offset index yet, so a call for one of them descends as the call
\* above it did, without end.
build_type_registry_entry(u, reg, offset, active) ==
    LET hit == get_by_dwarf_offset(reg, offset) IN
    IF IsSome(hit) THEN Ok(reg, Unwrap(hit).id)
    ELSE IF ~ContainsKey(u, offset) THEN Err(reg)
    ELSE IF offset \in active THEN Diverged(reg)
    ELSE RegisterResolved(offset,
            extract_type_metadata(u, reg, offset, 0, FALSE, FALSE, {},
                                  active \cup {offset}))

\* TypeResolver::get_void_type_id, which dwarf_analyzer.rs calls: the
\* canonical void, a primitive named "void" of size 0, materialized on
\* first demand
get_void_type_id(reg) ==
    register_type(reg, Type(<<0>>, VoidKind, 0, FALSE, FALSE, None))

-----------------------------------------------------------------------------
(* The records the calls are made with.                                    *)

IntKind == Primitive("int", 4, 4)

IntId == compute_type_id(IntKind, 0, FALSE, FALSE)

IntPtrId == compute_type_id(IntKind, 1, FALSE, FALSE)

StatusKind == Enum("Status", IntId, <<EnumVariant("A", 0), EnumVariant("B", 1)>>, 4)

\* DWARF offsets the records carry
Offsets == {1, 2}

\* kind, pointer depth and qualifiers of the records given to both registries
Contents ==
    { [kind |-> IntKind,    pointer_depth |-> 0, is_const |-> FALSE, is_volatile |-> FALSE],
      [kind |-> IntKind,    pointer_depth |-> 1, is_const |-> FALSE, is_volatile |-> FALSE],
      [kind |-> StatusKind, pointer_depth |-> 0, is_const |-> FALSE, is_volatile |-> FALSE] }

\* id values a caller writes into the record: TypeId(0), or another type's id
SuppliedId(dwarf_offset) ==
    IF dwarf_offset = Some(2) THEN IntPtrId ELSE <<0>>

InputTypes ==
    { Type(SuppliedId(off), c.kind, c.pointer_depth, c.is_const, c.is_volatile, off) :
        c \in Contents, off \in {None} \cup { Some(o) : o \in Offsets } }

RegNames == {"a", "b"}

\* number of calls made on the registries
MaxOps == 4

-----------------------------------------------------------------------------
(* The calls.  hist keeps the last two, newest first: the call, the        *)
(* registry it was made on and that registry before the call, the argument *)
(* (a record, or the registry merged in) and the value returned.           *)

Call(op, self, pre, arg, other, ret) ==
    [op |-> op, self |-> self, pre |-> pre, arg |-> arg, other |-> other, ret |-> ret]

Remember(call) == <<call>> \o (IF hist = <<>> THEN <<>> ELSE <<hist[1]>>)

InitRegistries ==
    /\ regs = [r \in RegNames |-> TypeRegistryNew]
    /\ hist = <<>>
    /\ nops = 0
    /\ inserted = [r \in RegNames |-> EmptyMap]

\* extract_analysis called on a binary with these units
InitAnalysis(units, symbols) ==
    /\ overflow_checks = FALSE
    /\ dwarf = units
    /\ exported_symbols = symbols
    /\ pc = "units"
    /\ unit_count = 0
    /\ die_pos = 0
    /\ type_registry = TypeRegistryNew
    /\ signatures = <<>>
    /\ sig = <<>>
    /\ all_signatures = <<>>
    /\ combined_registry = TypeRegistryNew
    /\ resolved = EmptyMap

\* registries under test, no analysis running (a binary without units)
Init == InitRegistries /\ InitAnalysis(<<>>, None)

\* the fields of a record that are its content
ContentOf(t) ==
    [id |-> t.id, kind |-> t.kind, pointer_depth |-> t.pointer_depth,
     is_const |-> t.is_const, is_volatile |-> t.is_volatile]

\* the keys that are new in `after` enter the ledger with their content
Ledger(old, after) ==
    old @@ [id \in DOMAIN after.types |-> ContentOf(after.types[id])]

\* regs[r].register_type(type_)
RegisterType(r, type_) ==
    LET res == register_type(regs[r], type_) IN
    /\ regs' = [regs EXCEPT ![r] = res.reg]
    /\ hist' = Remember(Call("register_type", r, regs[r], type_, TypeRegistryNew, res.id))
    /\ nops' = nops + 1
    /\ inserted' = [inserted EXCEPT ![r] = Ledger(@, res.reg)]
    /\ UNCHANGED analysis_vars

\* regs[x].merge(regs[y].clone())
Merge(x, y) ==
    LET merged == merge(regs[x], regs[y]) IN
    /\ regs' = [regs EXCEPT ![x] = merged]
    /\ hist' = Remember(Call("merge", x, regs[x], <<>>, regs[y], <<>>))
    /\ nops' = nops + 1
    /\ inserted' = [inserted EXCEPT ![x] = Ledger(@, merged)]
    /\ UNCHANGED analysis_vars

\* what a caller can write through the reference get_type_mut hands out:
\* every field of Type is pub
Rewrites(t) ==
    { [t EXCEPT !.pointer_depth = t.pointer_depth + 1],
      [t EXCEPT !.is_const = ~t.is_const],
      [t EXCEPT !.id = <<0>>] }

\* if let Some(t) = regs[r].get_type_mut(id) { *t = rewritten }
GetTypeMut(r, id, rewritten) ==
    /\ ContainsKey(regs[r].types, id)
    /\ regs' = [regs EXCEPT ![r].types[id] = rewritten]
    /\ hist' = Remember(Call("get_type_mut", r, regs[r], rewritten, TypeRegistryNew, id))
    /\ nops' = nops + 1
    /\ UNCHANGED inserted
    /\ UNCHANGED analysis_vars

Next ==
    \/ \E r \in RegNames, type_ \in InputTypes : nops < MaxOps /\ RegisterType(r, type_)
    \/ \E x \in RegNames, y \in RegNames : nops < MaxOps /\ Merge(x, y)

Spec == Init /\ [][Next]_vars

\* the public API with get_type_mut in use
NextMut ==
    \/ \E r \in RegNames, type_ \in InputTypes : nops < MaxOps /\ RegisterType(r, type_)
    \/ \E x \in RegNames, y \in RegNames : nops < MaxOps /\ Merge(x, y)
    \/ \E r \in RegNames : \E id \in DOMAIN regs[r].types :
          \E rewritten \in Rewrites(regs[r].types[id]) :
             nops < MaxOps /\ GetTypeMut(r, id, rewritten)

SpecMut == Init /\ [][NextMut]_vars

-----------------------------------------------------------------------------
(* Records for the canonical form: every ordering of every non-empty       *)
(* selection from a pool of three variants, fields or parameters.  Two of   *)
(* the union members and two of the enumerators carry the empty name, as    *)
(* unnamed members do (get_name(entry).unwrap_or_default()).                *)

Orderings(pool) ==
    { s \in UNION { [1..n -> pool] : n \in 1..Cardinality(pool) } :
        \A i, j \in 1..Len(s) : s[i] = s[j] => i = j }

StatusId == compute_type_id(StatusKind, 0, FALSE, FALSE)

EnumVariantPool == { EnumVariant("", 0), EnumVariant("", 1), EnumVariant("A", 0) }

UnionFieldPool == { UnionField("", IntId), UnionField("", IntPtrId), UnionField("a", IntId) }

StructFieldPool ==
    { StructField("x", IntId, 0, 4), StructField("y", IntId, 4, 4),
      StructField("", IntPtrId, 8, 0) }

ParameterPool == { IntId, IntPtrId, StatusId }

CanonKinds ==
    { Enum("Status", IntId, vs, 4) : vs \in Orderings(EnumVariantPool) }
    \cup { Union("U", vs, 8, 4) : vs \in Orderings(UnionFieldPool) }
    \cup { Struct("Point", fs, 16, 4, FALSE) : fs \in Orderings(StructFieldPool) }
    \cup { Function(Some(IntId), ps, FALSE) : ps \in Orderings(ParameterPool) }

CanonTypes == { Type(<<0>>, k, 0, FALSE, FALSE, Some(1)) : k \in CanonKinds }

\* number of register_type calls made with these records
MaxCanonOps == 2

NextCanon ==
    \E type_ \in CanonTypes : nops < MaxCanonOps /\ RegisterType("a", type_)

SpecCanon == Init /\ [][NextCanon]_vars

-----------------------------------------------------------------------------
(* DwarfAnalyzer *)

\* attr_flag_is_true: present and true (a flag attribute is None, Some(FALSE)
\* or Some(TRUE))
attr_flag_is_true(attr) == IsSome(attr) /\ Unwrap(attr)

\* The value of a string attribute is the bytes of the string.  Two values
\* stand for what is not a readable name: bytes that are not UTF-8, and a
\* reference into .debug_str that cannot be followed.
InvalidUtf8 == "lo\\xFF"

BadStringRef == "<strp out of range>"

\* Reader::to_string_lossy of an EndianRcSlice: String::from_utf8_lossy, which
\* puts U+FFFD where the bytes are not UTF-8 and never returns Err
to_string_lossy(bytes) == IF bytes = InvalidUtf8 THEN "lo\\u{FFFD}" ELSE bytes

\* read_attr_string: dwarf.attr_string(unit, attr.value()).ok()?, then
\* to_string_lossy
read_attr_string(attr) ==
    IF ~IsSome(attr) \/ Unwrap(attr) = BadStringRef THEN None
    ELSE Some(to_string_lossy(Unwrap(attr)))

\* read_entry_name: the linkage name, else the regular name
read_entry_name(entry) ==
    IF IsSome(read_attr_string(entry.linkage_name))
    THEN read_attr_string(entry.linkage_name)
    ELSE read_attr_string(entry.name)

\* resolve_name_reference: the name of the DIE a UnitRef attribute points to
resolve_name_reference(u, attr) ==
    IF ~IsUnitRef(attr) \/ ~ContainsKey(u, Unwrap(attr)) THEN None
    ELSE read_entry_name(u[Unwrap(attr)])

\* the artificial flag not looked at
GetFunctionNameOfArtificial(u, entry) ==
    IF IsSome(read_entry_name(entry)) THEN read_entry_name(entry)
    ELSE IF IsSome(resolve_name_reference(u, entry.specification))
    THEN resolve_name_reference(u, entry.specification)
    ELSE resolve_name_reference(u, entry.abstract_origin)

get_function_name(u, entry) ==
    IF attr_flag_is_true(entry.artificial) THEN None
    ELSE IF IsSome(read_entry_name(entry)) THEN read_entry_name(entry)
    ELSE IF IsSome(resolve_name_reference(u, entry.specification))
    THEN resolve_name_reference(u, entry.specification)
    ELSE resolve_name_reference(u, entry.abstract_origin)

\* format!("_{}", name)
Underscored(name) == "_" \o name

\* the underscored symbol not probed
IsExportedPlainOnly(symbols, name) ==
    IF IsSome(symbols) THEN name \in Unwrap(symbols) ELSE TRUE

\* the flag false when no symbol set was read
IsExportedOrFalse(symbols, name) ==
    IF IsSome(symbols)
    THEN name \in Unwrap(symbols) \/ Underscored(name) \in Unwrap(symbols)
    ELSE FALSE

\* symbols.contains(&name) || symbols.contains(&format!("_{}", name)),
\* or true when no symbol set was read
IsExported(symbols, name) ==
    IF IsSome(symbols)
    THEN name \in Unwrap(symbols) \/ Underscored(name) \in Unwrap(symbols)
    ELSE TRUE

Parameter(name, type_id) == [name |-> name, type_id |-> type_id]

FunctionSignature(name, return_type_id, parameters, is_variadic, is_exported) ==
    [name |-> name, return_type_id |-> return_type_id, parameters |-> parameters,
     is_variadic |-> is_variadic, is_exported |-> is_exported]

\* the unit being walked and the subprogram DIE being extracted
Unit == dwarf[unit_count].dies

FuncEntry == Unit[sig.offset]

\* a type reference of a subprogram or parameter: the resolved type, or void
ResolveOrVoid(u, reg, type) ==
    IF IsUnitRef(type)
    THEN build_type_registry_entry(u, reg, Unwrap(type), {})
    ELSE OkId(get_void_type_id(reg))

\* where `?` sends extract_analysis when a call does not return Ok
Abandoned(st) ==
    IF st = "Err" THEN "failed" ELSE IF st = "Panicked" THEN "panicked" ELSE "diverged"

\* while let Some(header) = unit_iter.next()? { let unit = dwarf.unit(header)?;
\* let mut type_resolver = TypeResolver::new(&dwarf, &unit); ... }
\* and, after the last unit, Ok(AnalysisResult { .. })
NextUnit ==
    /\ pc = "units"
    /\ IF unit_count = Len(dwarf)
       THEN /\ pc' = "done"
            /\ UNCHANGED <<unit_count, die_pos, type_registry, signatures>>
       ELSE IF ~dwarf[unit_count + 1].ok
       THEN /\ pc' = "failed"
            /\ UNCHANGED <<unit_count, die_pos, type_registry, signatures>>
       ELSE /\ pc' = "entries"
            /\ unit_count' = unit_count + 1
            /\ die_pos' = 0
            /\ type_registry' = TypeRegistryNew
            /\ signatures' = <<>>
    /\ UNCHANGED <<overflow_checks, dwarf, exported_symbols, sig, all_signatures, combined_registry>>
    /\ UNCHANGED <<resolved, registry_vars>>

\* while let Some((_, entry)) = entries.next_dfs()? { ... }: one DIE, up to
\* the point where its return type is wanted; after the last DIE the unit's
\* signatures are appended and its registry is merged
NextEntry ==
    /\ pc = "entries"
    /\ IF die_pos = Len(Unit)
       THEN /\ all_signatures' = all_signatures \o signatures
            /\ combined_registry' = merge(combined_registry, type_registry)
            /\ pc' = "units"
            /\ UNCHANGED <<die_pos, sig>>
       ELSE LET entry == Unit[die_pos + 1]
                name == get_function_name(Unit, entry)
            IN /\ die_pos' = die_pos + 1
               /\ UNCHANGED <<all_signatures, combined_registry>>
               /\ IF \/ entry.tag # "subprogram"
                     \/ attr_flag_is_true(entry.declaration)
                     \/ ~IsSome(name)
                     \/ (IsSome(exported_symbols)
                           /\ ~IsExported(exported_symbols, Unwrap(name)))
                  THEN pc' = "entries" /\ UNCHANGED sig
                  ELSE /\ pc' = "return_type"
                       /\ sig' = [offset |-> die_pos + 1, name |-> Unwrap(name),
                                  is_exported |-> IsExported(exported_symbols, Unwrap(name)),
                                  return_type_id |-> <<>>, parameters |-> <<>>,
                                  is_variadic |-> FALSE, child_pos |-> 0]
    /\ UNCHANGED <<overflow_checks, dwarf, exported_symbols, unit_count, type_registry, signatures>>
    /\ UNCHANGED <<resolved, registry_vars>>

\* the return type resolved to r: kept in the signature, or `?` returns
ReturnTypeIs(r) ==
    /\ type_registry' = r.reg
    /\ IF r.st = "Ok"
       THEN pc' = "parameters" /\ sig' = [sig EXCEPT !.return_type_id = r.val]
       ELSE pc' = Abandoned(r.st) /\ UNCHANGED sig

\* let return_type_id = ...build_type_registry_entry(offset)? or get_void_type_id()?
ReturnType ==
    /\ pc = "return_type"
    /\ ReturnTypeIs(ResolveOrVoid(Unit, type_registry, FuncEntry.type))
    /\ UNCHANGED <<overflow_checks, dwarf, exported_symbols, unit_count, die_pos, signatures,
                   all_signatures, combined_registry>>
    /\ UNCHANGED <<resolved, registry_vars>>

\* the parameter pushed without its name
ParameterPushedUnnamed(child_entry, r) ==
    /\ type_registry' = r.reg
    /\ IF r.st = "Ok"
       THEN /\ pc' = "parameters"
            /\ sig' = [sig EXCEPT !.parameters = Append(@, Parameter("", r.val)),
                                  !.child_pos = @ + 1]
       ELSE pc' = Abandoned(r.st) /\ UNCHANGED sig

\* the type of a formal parameter resolved to r: the parameter is pushed,
\* or `?` returns
ParameterTypeIs(child_entry, r) ==
    /\ type_registry' = r.reg
    /\ IF r.st = "Ok"
       THEN /\ pc' = "parameters"
            /\ sig' = [sig EXCEPT
                 !.parameters = Append(@,
                     Parameter(UnwrapOr(read_attr_string(child_entry.name), ""), r.val)),
                 !.child_pos = @ + 1]
       ELSE pc' = Abandoned(r.st) /\ UNCHANGED sig

\* extract_parameters: one direct child of the subprogram; after the last
\* child the signature is pushed
Parameters ==
    /\ pc = "parameters"
    /\ IF sig.child_pos = Len(FuncEntry.children)
       THEN /\ signatures' = Append(signatures,
                                FunctionSignature(sig.name, sig.return_type_id,
                                    sig.parameters, sig.is_variadic, sig.is_exported))
            /\ pc' = "entries"
            /\ UNCHANGED <<sig, type_registry>>
       ELSE LET child_entry == Unit[FuncEntry.children[sig.child_pos + 1]] IN
            /\ UNCHANGED signatures
            /\ CASE child_entry.tag = "formal_parameter" ->
                      ParameterTypeIs(child_entry,
                          ResolveOrVoid(Unit, type_registry, child_entry.type))
                 [] child_entry.tag = "unspecified_parameters" ->
                      /\ sig' = [sig EXCEPT !.is_variadic = TRUE, !.child_pos = @ + 1]
                      /\ UNCHANGED <<pc, type_registry>>
                 [] OTHER ->
                      /\ sig' = [sig EXCEPT !.child_pos = @ + 1]
                      /\ UNCHANGED <<pc, type_registry>>
    /\ UNCHANGED <<overflow_checks, dwarf, exported_symbols, unit_count, die_pos, all_signatures,
                   combined_registry>>
    /\ UNCHANGED <<resolved, registry_vars>>

\* the DIEs of compilation units, at offsets 1, 2, ... in depth-first order

D(tag, name, type) == Die(tag, name, type, None, <<>>)

Sized(tag, name, type, byte_size, children) ==
    Die(tag, name, type, Some(byte_size), children)

Member(name, type, location) ==
    [D("member", Some(name), Some(type)) EXCEPT !.data_member_location = Some(location)]

Enumerator(name, value) ==
    [D("enumerator", Some(name), None) EXCEPT !.const_value = Some(value)]

Subprogram(name, type, children) == Die("subprogram", name, type, None, children)

\* a small C library: int, const char *, an anonymous struct behind the
\* typedef Point, enum Status, int[2], union U, void *, and functions
\* using them
LibUnit ==
    << Sized("base_type", Some("int"), None, 4, <<>>),                    \*  1
       Sized("base_type", Some("char"), None, 1, <<>>),                   \*  2
       D("const_type", None, Some(2)),                                    \*  3
       D("pointer_type", None, Some(3)),                                  \*  4
       Sized("structure_type", None, None, 8, <<6, 7>>),                  \*  5
       Member("x", 1, 0),                                                 \*  6
       Member("y", 1, 4),                                                 \*  7
       D("typedef", Some("Point"), Some(5)),                              \*  8
       Sized("enumeration_type", Some("Status"), None, 4, <<10, 11>>),    \*  9
       Enumerator("A", 0),                                                \* 10
       Enumerator("B", 1),                                                \* 11
       Die("array_type", None, Some(1), None, <<13>>),                    \* 12
       [D("subrange_type", None, None) EXCEPT !.upper_bound = Some(1)],   \* 13
       Sized("union_type", Some("U"), None, 4, <<15, 16>>),               \* 14
       Member("a", 1, 0),                                                 \* 15
       Member("b", 4, 0),                                                 \* 16
       D("pointer_type", None, None),                                     \* 17
       Subprogram(Some("add"), Some(1), <<19, 20>>),                      \* 18
       D("formal_parameter", Some("a"), Some(1)),                         \* 19
       D("formal_parameter", Some("b"), Some(1)),                         \* 20
       Subprogram(Some("create_point"), Some(8), <<22>>),                 \* 21
       D("formal_parameter", Some("x"), Some(14)),                        \* 22
       Subprogram(Some("log"), None, <<24, 25>>),                         \* 23
       D("formal_parameter", Some("a"), Some(4)),                         \* 24
       D("unspecified_parameters", None, None),                           \* 25
       Subprogram(Some("get_status"), Some(9), <<27>>),                   \* 26
       D("formal_parameter", None, Some(17)),                             \* 27
       Subprogram(Some("sum"), Some(1), <<29, 30>>),                      \* 28
       D("formal_parameter", Some("x"), Some(12)),                        \* 29
       D("variable", Some("y"), Some(1)),                                 \* 30
       [Subprogram(Some("first"), Some(8), <<>>)
           EXCEPT !.declaration = Some(TRUE)],                            \* 31
       [Subprogram(None, Some(8), <<>>) EXCEPT !.specification = Some(31)], \* 32
       [Subprogram(Some("sum"), Some(1), <<>>)
           EXCEPT !.artificial = Some(TRUE)],                             \* 33
       Subprogram(None, None, <<>>) >>                                    \* 34

\* a second unit of the same library: int and add again at other offsets,
\* char where LibUnit has int, another Point, a function pointer, a
\* typedef of void
OtherUnit ==
    << Sized("base_type", Some("char"), None, 1, <<>>),                   \*  1
       Sized("base_type", Some("int"), None, 4, <<>>),                    \*  2
       Sized("structure_type", Some("Node"), None, 8, <<4, 5>>),          \*  3
       Member("x", 2, 0),                                                 \*  4
       Member("y", 6, 4),                                                 \*  5
       D("pointer_type", None, Some(2)),                                  \*  6
       D("typedef", Some("Point"), Some(3)),                              \*  7
       D("subroutine_type", None, Some(2)),                               \*  8
       D("pointer_type", None, Some(8)),                                  \*  9
       Subprogram(Some("next"), Some(7), <<11, 12>>),                     \* 10
       D("formal_parameter", Some("a"), Some(9)),                         \* 11
       D("formal_parameter", Some("b"), Some(0)),                         \* 12
       [Subprogram(None, Some(2), <<14, 15>>)
           EXCEPT !.linkage_name = Some("add")],                          \* 13
       D("formal_parameter", Some("a"), Some(2)),                         \* 14
       D("formal_parameter", Some("b"), Some(2)),                         \* 15
       D("typedef", Some("Handle"), None),                                \* 16
       Subprogram(Some("first"), Some(16), <<>>) >>                       \* 17

\* a list node that points to itself
ListUnit ==
    << Sized("base_type", Some("int"), None, 4, <<>>),                    \*  1
       Sized("structure_type", Some("Node"), None, 16, <<3, 4>>),         \*  2
       Member("x", 1, 0),                                                 \*  3
       Member("y", 5, 8),                                                 \*  4
       D("pointer_type", None, Some(2)),                                  \*  5
       Subprogram(Some("first"), Some(1), <<>>),                          \*  6
       Subprogram(Some("next"), Some(5), <<>>) >>                         \*  7

\* an array whose element type is missing
BrokenUnit ==
    << Sized("base_type", Some("int"), None, 4, <<>>),                    \*  1
       Die("array_type", None, None, None, <<>>),                         \*  2
       Subprogram(Some("first"), Some(1), <<>>),                          \*  3
       Subprogram(Some("sum"), Some(1), <<5>>),                           \*  4
       D("formal_parameter", Some("x"), Some(2)) >>                       \*  5

\* handles: void *, const void, typedefs of void, an enum without a type,
\* and DIEs that repeat the type of another DIE
HandleUnit ==
    << Sized("base_type", Some("int"), None, 4, <<>>),                    \*  1
       D("pointer_type", None, Some(1)),                                  \*  2
       D("pointer_type", None, Some(1)),                                  \*  3
       D("pointer_type", None, None),                                     \*  4
       D("typedef", Some("Handle"), None),                                \*  5
       D("typedef", Some("Handle"), None),                                \*  6
       D("const_type", None, None),                                       \*  7
       Sized("enumeration_type", Some("Status"), None, 4, <<9>>),         \*  8
       Enumerator("A", 0),                                                \*  9
       Sized("structure_type", Some("Node"), None, 16, <<11, 12>>),       \* 10
       Member("x", 5, 0),                                                 \* 11
       Member("y", 4, 8),                                                 \* 12
       Subprogram(Some("first"), Some(4), <<14>>),                        \* 13
       D("formal_parameter", Some("a"), None),                            \* 14
       Subprogram(Some("log"), None, <<16>>),                             \* 15
       D("formal_parameter", Some("b"), Some(6)),                         \* 16
       D("const_type", None, Some(1)) >>                                  \* 17

\* type references to offset 9, where the unit has no DIE
DanglingUnit ==
    << Sized("base_type", Some("int"), None, 4, <<>>),                    \*  1
       D("typedef", Some("Handle"), Some(9)),                             \*  2
       D("pointer_type", None, Some(9)),                                  \*  3
       Sized("structure_type", Some("Node"), None, 8, <<5>>),             \*  4
       Member("x", 9, 0),                                                 \*  5
       Subprogram(Some("first"), Some(1), <<7>>),                         \*  6
       D("formal_parameter", Some("a"), Some(9)) >>                       \*  7

\* chains of pointers and qualifiers over char and over nothing:
\* const char *, char *const, volatile const char *, its pointer, void *,
\* const void *, volatile void *
ChainUnit ==
    << Sized("base_type", Some("char"), None, 1, <<>>),                   \*  1
       D("const_type", None, Some(1)),                                    \*  2
       D("pointer_type", None, Some(2)),                                  \*  3
       D("pointer_type", None, Some(1)),                                  \*  4
       D("const_type", None, Some(4)),                                    \*  5
       D("volatile_type", None, Some(3)),                                 \*  6
       D("pointer_type", None, Some(6)),                                  \*  7
       D("pointer_type", None, None),                                     \*  8
       D("const_type", None, Some(8)),                                    \*  9
       D("volatile_type", None, None),                                    \* 10
       D("pointer_type", None, Some(10)) >>                               \* 11

\* subprograms whose names cannot be read as they stand: a name that is not
\* UTF-8, a linkage name behind a bad string reference, a linkage name that
\* is not UTF-8 before a regular name, and a name reached through the
\* abstract origin only
EncodingUnit ==
    << Sized("base_type", Some("int"), None, 4, <<>>),                    \*  1
       Subprogram(Some(InvalidUtf8), Some(1), <<>>),                      \*  2
       [Subprogram(Some("add"), Some(1), <<>>)
           EXCEPT !.linkage_name = Some(BadStringRef)],                   \*  3
       [Subprogram(Some("sum"), Some(1), <<>>)
           EXCEPT !.linkage_name = Some(InvalidUtf8)],                    \*  4
       [Subprogram(None, Some(1), <<>>) EXCEPT !.abstract_origin = Some(3),
                                               !.specification = Some(1)] >> \* 5

\* subprograms with children that are not parameters, and with parameters
\* nested in a lexical block
ParamUnit ==
    << Sized("base_type", Some("int"), None, 4, <<>>),                    \*  1
       Subprogram(Some("sum"), Some(1), <<3, 4, 6, 7, 8>>),               \*  2
       D("formal_parameter", None, Some(1)),                              \*  3
       Die("lexical_block", None, None, None, <<5>>),                     \*  4
       D("formal_parameter", Some("y"), Some(1)),                         \*  5
       D("formal_parameter", Some("a"), None),                            \*  6
       D("variable", Some("x"), Some(1)),                                 \*  7
       D("unspecified_parameters", None, None),                           \*  8
       Subprogram(Some("add"), Some(1), <<10>>),                          \*  9
       Die("lexical_block", None, None, None, <<11, 12>>),                \* 10
       D("unspecified_parameters", None, None),                           \* 11
       D("formal_parameter", Some("b"), Some(1)) >>                       \* 12

Subrange(count, upper_bound) ==
    [D("subrange_type", None, None) EXCEPT !.count = count, !.upper_bound = upper_bound]

\* arrays of int: with the largest upper bound, with a count and an upper
\* bound, with the bound on the second subrange, without a subrange, with a
\* count of half the usize range, and the largest one whose size fits
ArrayUnit ==
    << Sized("base_type", Some("int"), None, 4, <<>>),                    \*  1
       Die("array_type", None, Some(1), None, <<3>>),                     \*  2
       Subrange(None, Some(UsizeMax)),                                    \*  3
       Die("array_type", None, Some(1), None, <<5>>),                     \*  4
       Subrange(Some(3), Some(9)),                                        \*  5
       Die("array_type", None, Some(1), None, <<7, 8>>),                  \*  6
       Subrange(None, None),                                              \*  7
       Subrange(None, Some(1)),                                           \*  8
       Die("array_type", None, Some(1), None, <<>>),                      \*  9
       Die("array_type", None, Some(1), None, <<11>>),                    \* 10
       Subrange(Some((UsizeMax + 1) \div 2), None),                       \* 11
       Die("array_type", None, Some(1), None, <<13>>),                    \* 12
       Subrange(None, Some(UsizeMax \div 4 - 1)) >>                       \* 13

\* definitions next to a declaration and a compiler-generated subprogram
\* that have a name, a type and a parameter of their own
FlagUnit ==
    << Sized("base_type", Some("int"), None, 4, <<>>),                    \*  1
       Subprogram(Some("add"), Some(1), <<3>>),                           \*  2
       D("formal_parameter", Some("a"), Some(1)),                         \*  3
       [Subprogram(Some("log"), Some(1), <<5>>)
           EXCEPT !.declaration = Some(TRUE)],                            \*  4
       D("formal_parameter", Some("b"), Some(1)),                         \*  5
       [Subprogram(Some("next"), Some(1), <<7>>)
           EXCEPT !.artificial = Some(TRUE)],                             \*  6
       D("formal_parameter", Some("x"), Some(1)),                         \*  7
       [Subprogram(Some("get_status"), Some(1), <<>>)
           EXCEPT !.declaration = Some(FALSE)],                           \*  8
       [Subprogram(Some("sum"), Some(1), <<>>)
           EXCEPT !.artificial = Some(FALSE)] >>                          \*  9

\* units as dwarf.units() yields them: ok is FALSE where the header or the
\* abbreviations cannot be read
Units ==
    { [ok |-> TRUE, dies |-> LibUnit], [ok |-> TRUE, dies |-> OtherUnit],
      [ok |-> TRUE, dies |-> ListUnit], [ok |-> TRUE, dies |-> BrokenUnit],
      [ok |-> TRUE, dies |-> HandleUnit], [ok |-> TRUE, dies |-> DanglingUnit],
      [ok |-> TRUE, dies |-> FlagUnit], [ok |-> TRUE, dies |-> EncodingUnit],
      [ok |-> TRUE, dies |-> ParamUnit],
      [ok |-> FALSE, dies |-> <<>>] }

\* number of compilation units of a binary
MaxUnits == 2

UnitSequences(n) == UNION { [1..k -> Units] : k \in 0..n }

\* exported_only = false, or the dynamic symbols of the binary
SymbolSets ==
    { None, Some({"add", "_log", "first"}), Some({}) }

InitExtractAnalysis ==
    /\ InitRegistries
    /\ \E units \in UnitSequences(MaxUnits), symbols \in SymbolSets :
          InitAnalysis(units, symbols)

NextAnalysis == NextUnit \/ NextEntry \/ ReturnType \/ Parameters

SpecAnalysis == InitExtractAnalysis /\ [][NextAnalysis]_vars

-----------------------------------------------------------------------------
(* The TypeResolver of one unit, asked for the offsets of the unit's DIEs   *)
(* in any order.                                                            *)

\* number of build_type_registry_entry calls made on the resolver
MaxResolves == 4

ResolverUnits == { HandleUnit, ListUnit, BrokenUnit, DanglingUnit }

\* TypeResolver::new(&dwarf, &unit) for one of these units, in one of these
\* builds
TypeResolverNew(units, builds) ==
    /\ InitRegistries
    /\ overflow_checks \in builds
    /\ \E u \in units : dwarf = << [ok |-> TRUE, dies |-> u] >>
    /\ exported_symbols = None
    /\ pc = "resolve"
    /\ unit_count = 1
    /\ die_pos = 0
    /\ type_registry = TypeRegistryNew
    /\ signatures = <<>>
    /\ sig = <<>>
    /\ all_signatures = <<>>
    /\ combined_registry = TypeRegistryNew
    /\ resolved = EmptyMap

\* no unit of ResolverUnits or ChainUnit holds a number near the largest
\* usize: the two builds agree on them
InitResolver == TypeResolverNew(ResolverUnits, {FALSE})

\* resolved after a call for offset returned id
Returned(offset, id) ==
    IF ContainsKey(resolved, offset)
    THEN [resolved EXCEPT ![offset] = Append(@, id)]
    ELSE Insert(resolved, offset, <<id>>)

\* build_type_registry_entry(offset) ended with r: Ok(id), Err, or no return
ResolveEnds(offset, r) ==
    /\ type_registry' = r.reg
    /\ pc' = IF r.st \in {"Diverged", "Panicked"} THEN Abandoned(r.st) ELSE "resolve"
    /\ resolved' = IF r.st = "Ok" THEN Returned(offset, r.val) ELSE resolved
    /\ hist' = Remember(Call("build_type_registry_entry", "unit", type_registry,
                             offset, None, [st |-> r.st, val |-> r.val]))
    /\ nops' = nops + 1

BuildTypeRegistryEntry(offset) ==
    /\ pc = "resolve"
    /\ nops < MaxResolves
    /\ ResolveEnds(offset, build_type_registry_entry(Unit, type_registry, offset, {}))
    /\ UNCHANGED <<regs, inserted, overflow_checks, dwarf, exported_symbols, unit_count, die_pos,
                   signatures, sig, all_signatures, combined_registry>>

NextResolver == \E offset \in DOMAIN Unit : BuildTypeRegistryEntry(offset)

SpecResolver == InitResolver /\ [][NextResolver]_vars

\* the resolver of a unit of arrays, in a debug or a release build
SpecArrays == TypeResolverNew({ArrayUnit}, BOOLEAN) /\ [][NextResolver]_vars

\* the resolver of a unit of pointer and qualifier chains
SpecChains == TypeResolverNew({ChainUnit}, {FALSE}) /\ [][NextResolver]_vars

-----------------------------------------------------------------------------
(* Vocabulary of the properties *)

\* equal in kind, pointer_depth, is_const and is_volatile
SameContent(t, u) ==
    /\ t.kind = u.kind
    /\ t.pointer_depth = u.pointer_depth
    /\ t.is_const = u.is_const
    /\ t.is_volatile = u.is_volatile

ContentPresent(reg, t) == \E id \in DOMAIN reg.types : SameContent(reg.types[id], t)

TypeIdOf(t) == compute_type_id(t.kind, t.pointer_depth, t.is_const, t.is_volatile)

Elems(seq) == { seq[i] : i \in 1..Len(seq) }

NoRepeats(seq) == \A i, j \in 1..Len(seq) : seq[i] = seq[j] => i = j

LastIs(op) == hist # <<>> /\ hist[1].op = op

\* the last two calls were register_type on the same registry
TwoRegistrations ==
    /\ Len(hist) = 2
    /\ hist[1].op = "register_type" /\ hist[2].op = "register_type"
    /\ hist[1].self = hist[2].self

\* every name and offset either registry of a merge knows
NamesOf(x, y) == DOMAIN x.name_to_ids \cup DOMAIN y.name_to_ids

OffsetsOf(x, y) == DOMAIN x.dwarf_to_id \cup DOMAIN y.dwarf_to_id

-----------------------------------------------------------------------------
(* C1: registering a record and then a record of equal kind, pointer_depth, *)
(* is_const and is_volatile (any id, any dwarf_offset) returns the same     *)
(* TypeId both times; over the two calls len() grows by one when the        *)
(* content was absent before them and by zero when it was present.          *)
C1_RegisterTwiceSameId ==
    (TwoRegistrations /\ SameContent(hist[1].arg, hist[2].arg)) =>
        /\ hist[1].ret = hist[2].ret
        /\ len(regs[hist[1].self]) =
             len(hist[2].pre) + (IF ContentPresent(hist[2].pre, hist[2].arg) THEN 0 ELSE 1)

\* the same content was registered twice, from two offsets and with two
\* supplied ids, into a registry that did not hold it
C1_Witness ==
    /\ TwoRegistrations /\ SameContent(hist[1].arg, hist[2].arg)
    /\ hist[1].arg.dwarf_offset # hist[2].arg.dwarf_offset
    /\ hist[1].arg.id # hist[2].arg.id
    /\ ~ContentPresent(hist[2].pre, hist[2].arg)
    /\ len(hist[2].pre) > 0

(* C2: register_type with a record whose computed TypeId is already a key   *)
(* leaves the registry unchanged (stored record with its dwarf_offset, the  *)
(* offset index, the name index) and returns the existing TypeId.           *)
C2_DuplicateLeavesRegistry ==
    (LastIs("register_type") /\ ContainsKey(hist[1].pre.types, TypeIdOf(hist[1].arg))) =>
        /\ regs[hist[1].self] = hist[1].pre
        /\ hist[1].ret = TypeIdOf(hist[1].arg)
        /\ hist[1].ret = hist[1].pre.types[hist[1].ret].id

\* a duplicate arrived from an offset the index does not know, while the
\* stored record carries another offset
C2_Witness ==
    /\ LastIs("register_type")
    /\ ContainsKey(hist[1].pre.types, TypeIdOf(hist[1].arg))
    /\ IsSome(hist[1].arg.dwarf_offset)
    /\ ~ContainsKey(hist[1].pre.dwarf_to_id, Unwrap(hist[1].arg.dwarf_offset))
    /\ hist[1].pre.types[TypeIdOf(hist[1].arg)].dwarf_offset # hist[1].arg.dwarf_offset

(* C3: in every registry built by register_type and merge calls, each       *)
(* record is stored under the key equal to its id field, and that id is     *)
(* compute_type_id of its kind, pointer_depth, is_const and is_volatile,    *)
(* whatever id the caller supplied.                                         *)
C3_StoredIdIsContentHash ==
    \A r \in RegNames : \A id \in DOMAIN regs[r].types :
        /\ regs[r].types[id].id = id
        /\ id = TypeIdOf(regs[r].types[id])

\* a merge brought in a record that was registered with a forged id
C3_Witness ==
    /\ Len(hist) = 2 /\ hist[1].op = "merge" /\ hist[2].op = "register_type"
    /\ hist[2].self # hist[1].self
    /\ hist[2].arg.id # <<0>> /\ hist[2].arg.id # hist[2].ret
    /\ ~ContainsKey(hist[1].pre.types, hist[2].ret)
    /\ ContainsKey(regs[hist[1].self].types, hist[2].ret)

-----------------------------------------------------------------------------
(* merge *)

\* what C8 calls identical contents
IdenticalContents(x, y) ==
    /\ DOMAIN x.types = DOMAIN y.types
    /\ \A id \in DOMAIN x.types : x.types[id] = y.types[id]
    /\ \A o \in OffsetsOf(x, y) : get_by_dwarf_offset(x, o) = get_by_dwarf_offset(y, o)
    /\ \A n \in NamesOf(x, y) : Elems(get_by_name(x, n)) = Elems(get_by_name(y, n))

IdsOf(types) == { t.id : t \in Elems(types) }

OptionId(o) == IF IsSome(o) THEN Some(Unwrap(o).id) ELSE None

(* C8 as stated: merging B into A and A into B give identical contents:     *)
(* the same TypeIds, an equal record (all fields) under each, the same      *)
(* get_by_dwarf_offset answer for every offset and the same get_by_name     *)
(* records for every name.                                                  *)
C8_MergeCommutes ==
    LastIs("merge") =>
        IdenticalContents(regs[hist[1].self], merge(hist[1].other, hist[1].pre))

(* C8 amended: the two merges hold the same TypeIds, under each TypeId      *)
(* records equal in id, kind, pointer_depth, is_const and is_volatile, and  *)
(* list the same TypeIds under every name; each keeps its receiver's        *)
(* dwarf_offset for a record both inputs hold and its receiver's mapping    *)
(* for an offset both inputs index, and for every other offset              *)
(* get_by_dwarf_offset finds the same TypeId in both.                       *)
C8_MergeCommutesUpToProvenance ==
    LastIs("merge") =>
        LET a  == hist[1].pre
            b  == hist[1].other
            ab == regs[hist[1].self]
            ba == merge(b, a)
        IN /\ DOMAIN ab.types = DOMAIN ba.types
           /\ \A id \in DOMAIN ab.types :
                /\ SameContent(ab.types[id], ba.types[id])
                /\ ab.types[id].id = ba.types[id].id
                /\ ContainsKey(a.types, id) => ab.types[id] = a.types[id]
                /\ ContainsKey(b.types, id) => ba.types[id] = b.types[id]
           /\ \A n \in NamesOf(ab, ba) :
                IdsOf(get_by_name(ab, n)) = IdsOf(get_by_name(ba, n))
           /\ \A o \in OffsetsOf(ab, ba) :
                IF ContainsKey(a.dwarf_to_id, o) /\ ContainsKey(b.dwarf_to_id, o)
                THEN /\ ab.dwarf_to_id[o] = a.dwarf_to_id[o]
                     /\ ba.dwarf_to_id[o] = b.dwarf_to_id[o]
                ELSE OptionId(get_by_dwarf_offset(ab, o)) = OptionId(get_by_dwarf_offset(ba, o))

\* two registries that share a TypeId under different offsets, and differ
\* in the names they know, were merged
C8_Witness ==
    /\ LastIs("merge")
    /\ hist[1].pre # hist[1].other
    /\ \E id \in DOMAIN hist[1].pre.types \cap DOMAIN hist[1].other.types :
          hist[1].pre.types[id].dwarf_offset # hist[1].other.types[id].dwarf_offset
    /\ DOMAIN hist[1].pre.name_to_ids # DOMAIN hist[1].other.name_to_ids

(* C9: merging a copy of A into A leaves A unchanged: the same records and  *)
(* len(), the same offset index, the same name index, no TypeId twice under *)
(* a name.                                                                  *)
C9_MergeSelfIsIdentity ==
    (LastIs("merge") /\ hist[1].other = hist[1].pre) =>
        /\ regs[hist[1].self] = hist[1].pre
        /\ len(regs[hist[1].self]) = len(hist[1].pre)
        /\ \A n \in DOMAIN regs[hist[1].self].name_to_ids :
              NoRepeats(regs[hist[1].self].name_to_ids[n])

\* a registry with two records under one name and an indexed offset was
\* merged with its copy
C9_Witness ==
    /\ LastIs("merge") /\ hist[1].other = hist[1].pre
    /\ \E n \in DOMAIN hist[1].pre.name_to_ids : Len(hist[1].pre.name_to_ids[n]) = 2
    /\ hist[1].pre.dwarf_to_id # EmptyMap

(* C10: after a.merge(b) the TypeIds of a are the union of those a and b    *)
(* held, len() is the size of that union, every record a held is unchanged  *)
(* (dwarf_offset included) and every offset a had indexed keeps a's TypeId. *)
C10_MergeKeepsReceiver ==
    LastIs("merge") =>
        LET a  == hist[1].pre
            b  == hist[1].other
            ab == regs[hist[1].self]
        IN /\ DOMAIN ab.types = DOMAIN a.types \cup DOMAIN b.types
           /\ len(ab) = Cardinality(DOMAIN a.types \cup DOMAIN b.types)
           /\ \A id \in DOMAIN a.types : ab.types[id] = a.types[id]
           /\ \A o \in DOMAIN a.dwarf_to_id : ab.dwarf_to_id[o] = a.dwarf_to_id[o]
           /\ \A id \in DOMAIN b.types \ DOMAIN a.types : ab.types[id] = b.types[id]
           /\ \A o \in DOMAIN b.dwarf_to_id \ DOMAIN a.dwarf_to_id :
                 ab.dwarf_to_id[o] = b.dwarf_to_id[o]

\* the merged registries shared a TypeId under different dwarf_offsets and
\* an offset under different TypeIds, and each held a record the other lacked
C10_Witness ==
    /\ LastIs("merge")
    /\ \E id \in DOMAIN hist[1].pre.types \cap DOMAIN hist[1].other.types :
          hist[1].pre.types[id].dwarf_offset # hist[1].other.types[id].dwarf_offset
    /\ \E o \in DOMAIN hist[1].pre.dwarf_to_id \cap DOMAIN hist[1].other.dwarf_to_id :
          hist[1].pre.dwarf_to_id[o] # hist[1].other.dwarf_to_id[o]
    /\ DOMAIN hist[1].other.types \ DOMAIN hist[1].pre.types # {}

-----------------------------------------------------------------------------
(* C4: no public operation changes the content (kind, pointer_depth,       *)
(* is_const, is_volatile, id) of a record once it has been inserted: after  *)
(* any sequence of public calls every record ever inserted still has the    *)
(* content it was inserted with.                                            *)
C4_InsertedRecordsNeverChange ==
    \A r \in RegNames : \A id \in DOMAIN inserted[r] :
        /\ ContainsKey(regs[r].types, id)
        /\ ContentOf(regs[r].types[id]) = inserted[r][id]

-----------------------------------------------------------------------------
(* Canonical form *)

\* the same elements, each as often, in some order
IsPermutation(s, t) ==
    /\ Len(s) = Len(t)
    /\ \A x \in Elems(s) \cup Elems(t) :
          Cardinality({ i \in 1..Len(s) : s[i] = x }) =
          Cardinality({ i \in 1..Len(t) : t[i] = x })

SameQualifiers(t, u) ==
    /\ t.pointer_depth = u.pointer_depth
    /\ t.is_const = u.is_const
    /\ t.is_volatile = u.is_volatile

\* Enum or Union records equal except for the order of their variant lists
VariantsPermuted(t, u) ==
    /\ SameQualifiers(t, u)
    /\ t.kind.tag \in {"Enum", "Union"} /\ u.kind.tag = t.kind.tag
    /\ [t.kind EXCEPT !.variants = <<>>] = [u.kind EXCEPT !.variants = <<>>]
    /\ IsPermutation(t.kind.variants, u.kind.variants)

DistinctNames(vs) == \A i, j \in 1..Len(vs) : vs[i].name = vs[j].name => i = j

\* Struct records that differ only in the order of their distinct fields, or
\* Function records that differ only in the order of their distinct parameters
SequenceReordered(t, u) ==
    /\ SameQualifiers(t, u)
    /\ \/ /\ t.kind.tag = "Struct" /\ u.kind.tag = "Struct"
          /\ [t.kind EXCEPT !.fields = <<>>] = [u.kind EXCEPT !.fields = <<>>]
          /\ IsPermutation(t.kind.fields, u.kind.fields)
          /\ NoRepeats(t.kind.fields)
          /\ t.kind.fields # u.kind.fields
       \/ /\ t.kind.tag = "Function" /\ u.kind.tag = "Function"
          /\ [t.kind EXCEPT !.parameter_type_ids = <<>>]
               = [u.kind EXCEPT !.parameter_type_ids = <<>>]
          /\ IsPermutation(t.kind.parameter_type_ids, u.kind.parameter_type_ids)
          /\ NoRepeats(t.kind.parameter_type_ids)
          /\ t.kind.parameter_type_ids # u.kind.parameter_type_ids

(* C5: two Enum records, or two Union records, equal except that one       *)
(* variant list is a permutation of the other (any permutation, variants    *)
(* of equal name included) get the same TypeId from register_type, and the  *)
(* second registration adds no record.                                      *)
C5_VariantOrderIrrelevant ==
    (TwoRegistrations /\ VariantsPermuted(hist[2].arg, hist[1].arg)) =>
        /\ hist[1].ret = hist[2].ret
        /\ regs[hist[1].self] = hist[1].pre

\* C5 for variant lists whose names are pairwise distinct
C5_DistinctNamesOrderIrrelevant ==
    (TwoRegistrations /\ VariantsPermuted(hist[2].arg, hist[1].arg)
        /\ DistinctNames(hist[1].arg.kind.variants)) =>
        /\ hist[1].ret = hist[2].ret
        /\ regs[hist[1].self] = hist[1].pre

(* C6: two Struct records that differ only in the order of their distinct  *)
(* fields, and two Function records that differ only in the order of their  *)
(* distinct parameter TypeIds, get distinct TypeIds; registering both grows *)
(* len() by two.                                                            *)
C6_SequenceOrderMatters ==
    (TwoRegistrations /\ SequenceReordered(hist[2].arg, hist[1].arg)) =>
        /\ hist[1].ret # hist[2].ret
        /\ (~ContentPresent(hist[2].pre, hist[2].arg)
              /\ ~ContentPresent(hist[2].pre, hist[1].arg))
           => len(regs[hist[1].self]) = len(hist[2].pre) + 2

\* a struct of three fields was registered in two field orders into an
\* empty registry
C6_Witness ==
    /\ TwoRegistrations /\ SequenceReordered(hist[2].arg, hist[1].arg)
    /\ hist[1].arg.kind.tag = "Struct"
    /\ Len(hist[1].arg.kind.fields) = 3
    /\ len(regs[hist[1].self]) = 2

\* a function was registered with its parameters in two orders
C6_WitnessFunction ==
    /\ TwoRegistrations /\ SequenceReordered(hist[2].arg, hist[1].arg)
    /\ hist[1].arg.kind.tag = "Function"
    /\ len(regs[hist[1].self]) = 2

-----------------------------------------------------------------------------
(* Reference closure of the analysis result *)

\* the TypeIds a base kind holds in its slots
Slots(kind) ==
    CASE kind.tag = "Struct" -> { f.type_id : f \in Elems(kind.fields) }
      [] kind.tag = "Union" -> { v.type_id : v \in Elems(kind.variants) }
      [] kind.tag = "Enum" -> { kind.backing_id }
      [] kind.tag = "Array" -> { kind.element_type_id }
      [] kind.tag = "Typedef" -> { kind.aliased_type_id }
      [] kind.tag = "Function" ->
            Elems(kind.return_type_id) \cup Elems(kind.parameter_type_ids)
      [] OTHER -> {}

ReferenceClosed(reg) ==
    \A id \in DOMAIN reg.types : Slots(reg.types[id].kind) \subseteq DOMAIN reg.types

SignaturesResolve(sigs, reg) ==
    \A s \in Elems(sigs) :
        /\ s.return_type_id \in DOMAIN reg.types
        /\ \A p \in Elems(s.parameters) : p.type_id \in DOMAIN reg.types

HasKind(reg, tag) ==
    \E id \in DOMAIN reg.types :
        reg.types[id].kind.tag = tag /\ Slots(reg.types[id].kind) # {}

\* C7: when extract_analysis returns Ok, every TypeId in a slot of a record
\* of the merged registry, and every return and parameter TypeId of the
\* returned signatures, is a key of the merged registry; and while a unit
\* is being walked, after each resolution that returned, every TypeId in a
\* slot of a record of the unit's registry is a key of the unit's registry.
C7_AnalysisResultReferenceClosed ==
    /\ pc = "done" =>
          /\ ReferenceClosed(combined_registry)
          /\ SignaturesResolve(all_signatures, combined_registry)
    /\ pc \in {"entries", "return_type", "parameters", "units", "done"} =>
          ReferenceClosed(type_registry)

\* C7 witness: extract_analysis has returned for a binary of two units, the
\* merged registry holds struct, union, enum, array and typedef records with
\* filled slots, and signatures with parameters were returned, one of them
\* returning void
C7_Witness ==
    /\ pc = "done"
    /\ Len(dwarf) = 2 /\ dwarf[1].dies = LibUnit /\ dwarf[2].dies = OtherUnit
    /\ \A tag \in {"Struct", "Union", "Enum", "Array", "Typedef"} :
          HasKind(combined_registry, tag)
    /\ len(combined_registry) > len(type_registry)
    /\ \E s \in Elems(all_signatures) :
          /\ s.parameters # <<>>
          /\ s.return_type_id = compute_type_id(VoidKind, 0, FALSE, FALSE)

-----------------------------------------------------------------------------
(* Resolution by offset *)

\* the last call was build_type_registry_entry and it returned Ok
LastResolved ==
    LastIs("build_type_registry_entry") /\ hist[1].ret.st = "Ok"

\* C11: on one resolver, all successful build_type_registry_entry calls for
\* an offset return the same TypeId, whatever was resolved before or in
\* between, and a successful call for an offset that had succeeded before
\* adds no record to the registry of the unit.
C11_ResolveTwiceSameId ==
    /\ \A o \in DOMAIN resolved :
          \A i, j \in 1..Len(resolved[o]) : resolved[o][i] = resolved[o][j]
    /\ (LastResolved /\ Len(resolved[hist[1].arg]) > 1) =>
          type_registry.types = hist[1].pre.types

\* C11 witness: an offset whose record was first found registered from
\* another offset (so the offset index does not hold it) was resolved again
\* after a call for a further offset had added a record
C11_Witness ==
    /\ LastResolved /\ Len(hist) = 2
    /\ Len(resolved[hist[1].arg]) = 2
    /\ hist[2].arg # hist[1].arg /\ hist[2].ret.st = "Ok"
    /\ len(hist[1].pre) > len(hist[2].pre)
    /\ ~ContainsKey(type_registry.dwarf_to_id, hist[1].arg)
    /\ type_registry.types[hist[1].ret.val].kind.tag = "Typedef"

\* C12: every build_type_registry_entry call returns, Ok or Err, on every
\* unit, a struct with a member that points to the struct included: no call
\* descends again into an offset whose resolution is in progress.
C12_ResolutionTerminates == pc # "diverged"

-----------------------------------------------------------------------------
(* void *)

\* id is a key of reg and its record is the canonical void
IsCanonicalVoid(reg, id) ==
    /\ ContainsKey(reg.types, id)
    /\ reg.types[id].kind = Primitive("void", 0, reg.types[id].kind.alignment)
    /\ reg.types[id].pointer_depth = 0
    /\ ~reg.types[id].is_const
    /\ ~reg.types[id].is_volatile

\* the formal_parameter children among the first n children of a subprogram
RECURSIVE FormalsAmong(_, _, _)
FormalsAmong(u, children, n) ==
    IF n = 0 THEN <<>>
    ELSE FormalsAmong(u, children, n - 1)
         \o (IF u[children[n]].tag = "formal_parameter" THEN <<u[children[n]]>> ELSE <<>>)

\* C13: whenever void stands in for an absent type reference, the TypeId
\* used is that of the Primitive "void" of size 0 with pointer_depth 0, not
\* const, not volatile: in the record of every typedef DIE without a type,
\* in the return type of a subprogram without a type and in every
\* parameter without a type, whatever was registered under the name "void"
\* before.
C13_VoidIsCanonical ==
    unit_count > 0 =>
      /\ \A o \in DOMAIN type_registry.dwarf_to_id :
            (Unit[o].tag = "typedef" /\ ~IsUnitRef(Unit[o].type)) =>
                IsCanonicalVoid(type_registry,
                    type_registry.types[type_registry.dwarf_to_id[o]].kind.aliased_type_id)
      /\ pc = "parameters" =>
            /\ ~IsUnitRef(FuncEntry.type) =>
                  IsCanonicalVoid(type_registry, sig.return_type_id)
            /\ \A i \in 1..Len(sig.parameters) :
                  ~IsUnitRef(FormalsAmong(Unit, FuncEntry.children, sig.child_pos)[i].type)
                     => IsCanonicalVoid(type_registry, sig.parameters[i].type_id)

-----------------------------------------------------------------------------
(* Failures *)

\* every unit of the binary can be read
AllUnitsReadable == \A i \in 1..Len(dwarf) : dwarf[i].ok

\* the units in which every type reference resolves
SoundUnits == { LibUnit, OtherUnit, HandleUnit }

\* C14: when the units of the binary can be read, extract_analysis does not
\* return an error: a return type or a parameter type that fails to resolve
\* (an array without an element type, a base type without a name) costs at
\* most the subprogram it belongs to.
C14_DieFailureDoesNotAbort == AllUnitsReadable => pc # "failed"

\* C15: when every unit either cannot be read or holds only DIEs that
\* resolve, extract_analysis does not return an error: a unit that cannot be
\* read contributes nothing and the units before and after it are extracted.
C15_MalformedUnitDoesNotAbort ==
    (\A i \in 1..Len(dwarf) : ~dwarf[i].ok \/ dwarf[i].dies \in SoundUnits)
        => pc # "failed"

\* the DIE refers to a type at an offset where the unit has no DIE
MissingReference(u, entry) ==
    IsUnitRef(entry.type) /\ ~ContainsKey(u, Unwrap(entry.type))

\* C16: resolving a DIE whose type reference points to an offset where no
\* DIE can be read returns Ok and registers the record of the DIE, with the
\* canonical void in place of the missing type.
C16_MissingReferenceBecomesVoid ==
    (LastIs("build_type_registry_entry") /\ MissingReference(Unit, Unit[hist[1].arg])
        /\ Unit[hist[1].arg].tag \in {"typedef", "pointer_type"}) =>
        /\ hist[1].ret.st = "Ok"
        /\ ContainsKey(type_registry.types, hist[1].ret.val)
        /\ Unit[hist[1].arg].tag = "typedef" =>
              IsCanonicalVoid(type_registry,
                  type_registry.types[hist[1].ret.val].kind.aliased_type_id)

-----------------------------------------------------------------------------
(* Projection: Type::to_c_string and FunctionSignature::to_string.  Text is *)
(* a string, format! and push are concatenation.  A call that re-enters    *)
(* the record it is rendering never returns (Diverged).                     *)

RECURSIVE Stars(_)
RECURSIVE to_c_string(_, _, _)
RECURSIVE Join(_, _)
RECURSIVE ParamStrings(_, _, _)

\* for _ in 0..pointer_depth { base_str.push('*') }
Stars(pointer_depth) ==
    IF pointer_depth = 0 THEN "" ELSE "*" \o Stars(pointer_depth - 1)

\* the volatile prefix left out
DecoratedWithoutVolatile(self, base_str) ==
    (IF self.is_const THEN "const " ELSE "") \o base_str \o Stars(self.pointer_depth)

\* const is prefixed first, volatile is prefixed to the result, then the stars
Decorated(self, base_str) ==
    (IF self.is_volatile THEN "volatile " ELSE "")
        \o (IF self.is_const THEN "const " ELSE "")
        \o base_str \o Stars(self.pointer_depth)

\* registry.get_type(id).map(|t| t.to_c_string(registry))
\*     .unwrap_or_else(|| "void".to_string())
TypeText(registry, id, active) ==
    IF ~ContainsKey(registry.types, id) THEN Ok(registry, "void")
    ELSE IF id \in active THEN Diverged(registry)
    ELSE to_c_string(registry.types[id], registry, active \cup {id})

\* format!("{}[{}]", elem, count)
ArrayText(self, elem) ==
    IF elem.st # "Ok" THEN elem
    ELSE Ok(elem.reg, Decorated(self, elem.val \o "[" \o ToString(self.kind.count) \o "]"))

to_c_string(self, registry, active) ==
    CASE self.kind.tag \in {"Primitive", "Enum", "Typedef"} ->
            Ok(registry, Decorated(self, self.kind.name))
      [] self.kind.tag = "Struct" ->
            Ok(registry, Decorated(self, "struct " \o self.kind.name))
      [] self.kind.tag = "Union" ->
            Ok(registry, Decorated(self, "union " \o self.kind.name))
      [] self.kind.tag = "Array" ->
            ArrayText(self, TypeText(registry, self.kind.element_type_id, active))
      [] self.kind.tag = "Function" ->
            Ok(registry, Decorated(self, "void (*)(...)"))

\* Vec<String>::join
Join(strings, sep) ==
    IF strings = <<>> THEN ""
    ELSE IF Len(strings) = 1 THEN strings[1]
    ELSE strings[1] \o sep \o Join(Tail(strings), sep)

\* one parameter: its type alone, or "TYPE NAME"
ParamString(p, type_str) ==
    IF type_str.st # "Ok" THEN type_str
    ELSE Ok(type_str.reg, IF p.name = "" THEN type_str.val
                          ELSE type_str.val \o " " \o p.name)

ParamStringsWith(registry, parameters, strings, s) ==
    IF s.st # "Ok" THEN s
    ELSE ParamStrings(registry, Tail(parameters), Append(strings, s.val))

\* self.parameters.iter().map(..).collect()
ParamStrings(registry, parameters, strings) ==
    IF parameters = <<>> THEN Ok(registry, strings)
    ELSE ParamStringsWith(registry, parameters, strings,
            ParamString(Head(parameters),
                        TypeText(registry, Head(parameters).type_id, {})))

\* the `, ...` is appended to a non-empty parameter list only
ParamList(self, param_strings) ==
    IF param_strings.st # "Ok" THEN param_strings
    ELSE Ok(param_strings.reg,
            IF self.is_variadic THEN Join(param_strings.val, ", ") \o ", ..."
            ELSE Join(param_strings.val, ", "))

Params(self, registry) ==
    IF self.parameters = <<>> THEN Ok(registry, "void")
    ELSE ParamList(self, ParamStrings(registry, self.parameters, <<>>))

\* format!("{} {}({})", return_type_str, self.name, params)
Formatted(self, return_type_str, params) ==
    IF return_type_str.st # "Ok" THEN return_type_str
    ELSE IF params.st # "Ok" THEN params
    ELSE Ok(params.reg,
            return_type_str.val \o " " \o self.name \o "(" \o params.val \o ")")

to_string(self, registry) ==
    Formatted(self, TypeText(registry, self.return_type_id, {}), Params(self, registry))

\* the records rendered
CharKind == Primitive("char", 1, 1)

ConstCharPtrId == compute_type_id(CharKind, 1, TRUE, FALSE)

IntArrayKind == Array(IntId, 3, 12)

IntArrayId == compute_type_id(IntArrayKind, 0, FALSE, FALSE)

RenderTypes ==
    { Type(<<0>>, IntKind, 0, FALSE, FALSE, None),
      Type(<<0>>, CharKind, 1, TRUE, FALSE, None),
      Type(<<0>>, IntKind, 2, TRUE, TRUE, None),
      Type(<<0>>, Struct("Point", <<StructField("x", IntId, 0, 4)>>, 4, 4, FALSE),
           1, FALSE, TRUE, None),
      Type(<<0>>, Union("U", <<UnionField("a", IntId)>>, 4, 4), 0, FALSE, FALSE, None),
      Type(<<0>>, StatusKind, 0, TRUE, FALSE, None),
      Type(<<0>>, Typedef("Handle", IntId), 1, FALSE, FALSE, None),
      Type(<<0>>, IntArrayKind, 0, FALSE, FALSE, None),
      Type(<<0>>, Array(IntArrayId, 2, 24), 1, TRUE, FALSE, None),
      Type(<<0>>, Function(Some(IntId), <<IntId>>, FALSE), 1, FALSE, FALSE, None) }

\* an array record rewritten through get_type_mut to name another element
Repointed(registry, t) ==
    IF t.kind.tag # "Array" THEN {}
    ELSE { [t EXCEPT !.kind.element_type_id = id] : id \in DOMAIN registry.types }

RenderParameters ==
    { Parameter(name, type_id) : name \in {"", "a"}, type_id \in {IntId, ConstCharPtrId} }

RenderSignatures ==
    { FunctionSignature("add", IntId, parameters, is_variadic, TRUE) :
        parameters \in UNION { [1..n -> RenderParameters] : n \in 0..2 },
        is_variadic \in BOOLEAN }

\* number of calls made on the registry that is rendered
MaxRenders == 3

TextOf(r) == IF r.st = "Ok" THEN Some(r.val) ELSE None

\* regs["a"].types[id].to_c_string(&regs["a"])
ToCStringReturns(type_, r) ==
    /\ hist' = Remember(Call("to_c_string", "a", regs["a"], type_, TypeRegistryNew, TextOf(r)))
    /\ nops' = nops + 1
    /\ UNCHANGED <<regs, inserted>>
    /\ UNCHANGED analysis_vars

ToCString(id) ==
    ToCStringReturns(regs["a"].types[id], to_c_string(regs["a"].types[id], regs["a"], {id}))

\* signature.to_string(&regs["a"])
ToStringReturns(signature, r) ==
    /\ hist' = Remember(Call("to_string", "a", regs["a"], signature, TypeRegistryNew, TextOf(r)))
    /\ nops' = nops + 1
    /\ UNCHANGED <<regs, inserted>>
    /\ UNCHANGED analysis_vars

ToStringOf(signature) == ToStringReturns(signature, to_string(signature, regs["a"]))

NextRender ==
    \/ \E type_ \in RenderTypes : nops < MaxRenders /\ RegisterType("a", type_)
    \/ \E id \in DOMAIN regs["a"].types :
          \E rewritten \in Repointed(regs["a"], regs["a"].types[id]) :
             nops < MaxRenders /\ GetTypeMut("a", id, rewritten)
    \/ \E id \in DOMAIN regs["a"].types : nops < MaxRenders /\ ToCString(id)
    \/ \E signature \in RenderSignatures : nops < MaxRenders /\ ToStringOf(signature)

SpecRender == Init /\ [][NextRender]_vars

-----------------------------------------------------------------------------
(* Projection claims *)

EndsWith(text, suffix) ==
    Len(text) >= Len(suffix)
        /\ SubSeq(text, Len(text) - Len(suffix) + 1, Len(text)) = suffix

StartsWith(text, prefix) ==
    Len(text) >= Len(prefix) /\ SubSeq(text, 1, Len(prefix)) = prefix

\* the qualifier prefixes a record may carry, in either order
Prefixes(t) ==
    IF t.is_const /\ t.is_volatile THEN {"const volatile ", "volatile const "}
    ELSE IF t.is_const THEN {"const "}
    ELSE IF t.is_volatile THEN {"volatile "}
    ELSE {""}

\* the text of a parameter type as the registry renders it
TypeString(registry, id) == TypeText(registry, id, {}).val

ParameterTexts(registry, parameters) ==
    [i \in 1..Len(parameters) |->
        IF parameters[i].name = "" THEN TypeString(registry, parameters[i].type_id)
        ELSE TypeString(registry, parameters[i].type_id) \o " " \o parameters[i].name]

\* C17: to_string returns `RET NAME(PARAMS)`: PARAMS is `void` for an empty
\* parameter list and otherwise the parameters joined by `, `, each `TYPE
\* NAME` or `TYPE` alone when the name is empty; and every variadic signature,
\* whatever its number of parameters, renders with `, ...` before the `)`.
C17_ToStringFormat ==
    LastIs("to_string") =>
        /\ hist[1].ret # None
        /\ StartsWith(Unwrap(hist[1].ret),
                TypeString(hist[1].pre, hist[1].arg.return_type_id)
                    \o " " \o hist[1].arg.name \o "(")
        /\ hist[1].arg.is_variadic => EndsWith(Unwrap(hist[1].ret), ", ...)")
        /\ (hist[1].arg.parameters = <<>> /\ ~hist[1].arg.is_variadic) =>
              EndsWith(Unwrap(hist[1].ret), "(void)")
        /\ hist[1].arg.parameters # <<>> =>
              EndsWith(Unwrap(hist[1].ret),
                  "(" \o Join(ParameterTexts(hist[1].pre, hist[1].arg.parameters), ", ")
                      \o (IF hist[1].arg.is_variadic THEN ", ...)" ELSE ")"))

\* the text before the qualifiers and stars are applied; for an array with
\* its element in the registry, the part the array itself contributes
BaseText(registry, t) ==
    CASE t.kind.tag \in {"Primitive", "Enum", "Typedef"} -> t.kind.name
      [] t.kind.tag = "Struct" -> "struct " \o t.kind.name
      [] t.kind.tag = "Union" -> "union " \o t.kind.name
      [] t.kind.tag = "Function" -> "void (*)(...)"
      [] t.kind.tag = "Array" ->
            (IF ContainsKey(registry.types, t.kind.element_type_id) THEN "" ELSE "void")
                \o "[" \o ToString(t.kind.count) \o "]"

\* the call returned the text the rules give for its record
ToCStringFormatted ==
    /\ hist[1].ret # None
    /\ \E prefix \in Prefixes(hist[1].arg) :
          /\ StartsWith(Unwrap(hist[1].ret), prefix)
          /\ EndsWith(Unwrap(hist[1].ret),
                BaseText(hist[1].pre, hist[1].arg) \o Stars(hist[1].arg.pointer_depth))
          /\ (hist[1].arg.kind.tag # "Array"
                \/ ~ContainsKey(hist[1].pre.types, hist[1].arg.kind.element_type_id)) =>
                Unwrap(hist[1].ret) = prefix \o BaseText(hist[1].pre, hist[1].arg)
                                          \o Stars(hist[1].arg.pointer_depth)

\* every record sits under the TypeId of its content, as register_type and
\* merge store it
ContentAddressed(registry) ==
    \A id \in DOMAIN registry.types :
        compute_type_id(registry.types[id].kind, registry.types[id].pointer_depth,
                        registry.types[id].is_const, registry.types[id].is_volatile) = id

-----------------------------------------------------------------------------
(* Which subprograms yield a signature *)

\* a subprogram DIE that is a definition and not compiler-generated
IsDefinition(entry) ==
    /\ entry.tag = "subprogram"
    /\ entry.declaration \in {None, Some(FALSE)}
    /\ entry.artificial # Some(TRUE)

\* the names of the signatures extracted from the current unit so far
SignatureNames == { signatures[i].name : i \in 1..Len(signatures) }

\* the DIEs of the current unit that the walk has finished with
Walked == IF pc = "entries" /\ unit_count > 0 THEN 1..die_pos ELSE {}

\* C19: with a symbol set read (exported_only true), a named, non-artificial
\* subprogram definition that the walk has passed has a signature if and
\* only if its name N or `_` followed by N is in the set; without a symbol
\* set (exported_only false) every such definition has a signature.
C19_ExportFilter ==
    \A o \in Walked :
        (IsDefinition(Unit[o]) /\ IsSome(get_function_name(Unit, Unit[o]))) =>
            LET N == Unwrap(get_function_name(Unit, Unit[o])) IN
            IF exported_symbols = None THEN N \in SignatureNames
            ELSE N \in SignatureNames <=>
                    (N \in Unwrap(exported_symbols)
                        \/ Underscored(N) \in Unwrap(exported_symbols))

\* LibUnit walked to its end with the symbols add, _log and first: add is
\* kept by its plain name, log by the underscored one, first by the name of
\* its specification; create_point, get_status and sum are dropped
C19_Witness ==
    /\ pc = "entries" /\ unit_count > 0
    /\ Unit = LibUnit /\ die_pos = Len(Unit)
    /\ exported_symbols = Some({"add", "_log", "first"})
    /\ SignatureNames = {"add", "log", "first"}

\* C20: a signature is extracted, and emitted, only for a subprogram DIE
\* whose declaration attribute is absent or false and whose artificial
\* attribute is not true; a declaration or an artificial subprogram with a
\* name, a type and parameters yields none.
C20_OnlyDefinitionsEmitted ==
    /\ pc \in {"return_type", "parameters"} => IsDefinition(FuncEntry)
    /\ unit_count > 0 =>
          \A N \in SignatureNames :
              \E o \in 1..die_pos :
                  IsDefinition(Unit[o]) /\ get_function_name(Unit, Unit[o]) = Some(N)

\* FlagUnit walked to its end without a symbol set: the declaration `log`
\* and the artificial `next` have yielded nothing
C20_Witness ==
    /\ pc = "entries" /\ unit_count > 0
    /\ Unit = FlagUnit /\ die_pos = Len(Unit)
    /\ exported_symbols = None
    /\ SignatureNames = {"add", "get_status", "sum"}

-----------------------------------------------------------------------------
(* SymbolReader::get_exported_symbols.  A symbol table is the sequence its  *)
(* iterator yields; a symbol has a name (None when symbol.name() is Err),  *)
(* a kind, and the is_definition and is_global answers.                     *)

Symbol(name, kind, is_definition, is_global) ==
    [name |-> name, kind |-> kind, is_definition |-> is_definition,
     is_global |-> is_global]

RECURSIVE DynamicFunctions(_, _)
RECURSIVE RegularFunctions(_, _)

\* for symbol in self.object_file.dynamic_symbols() { ... symbols.insert(..) }
DynamicFunctions(dynamic_symbols, symbols) ==
    IF dynamic_symbols = <<>> THEN symbols
    ELSE DynamicFunctions(Tail(dynamic_symbols),
            IF /\ Head(dynamic_symbols).is_definition
               /\ Head(dynamic_symbols).kind = "Text"
               /\ IsSome(Head(dynamic_symbols).name)
            THEN symbols \cup {Unwrap(Head(dynamic_symbols).name)}
            ELSE symbols)

\* for symbol in self.object_file.symbols() { ... if symbol.is_global() { .. } }
RegularFunctions(regular_symbols, symbols) ==
    IF regular_symbols = <<>> THEN symbols
    ELSE RegularFunctions(Tail(regular_symbols),
            IF /\ Head(regular_symbols).is_definition
               /\ Head(regular_symbols).kind = "Text"
               /\ Head(regular_symbols).is_global
               /\ IsSome(Head(regular_symbols).name)
            THEN symbols \cup {Unwrap(Head(regular_symbols).name)}
            ELSE symbols)

\* the regular table is walked when the set is empty after the dynamic one
SymbolsAfterDynamic(regular_symbols, symbols) ==
    IF symbols = {}
    THEN [symbols |-> RegularFunctions(regular_symbols, symbols), regular_read |-> TRUE]
    ELSE [symbols |-> symbols, regular_read |-> FALSE]

get_exported_symbols(dynamic_symbols, regular_symbols) ==
    SymbolsAfterDynamic(regular_symbols, DynamicFunctions(dynamic_symbols, {}))

\* a global and a local function, a global variable, an undefined function,
\* a function whose name is not UTF-8
SymbolPool ==
    { Symbol(Some("add"), "Text", TRUE, TRUE),
      Symbol(Some("log"), "Text", TRUE, FALSE),
      Symbol(Some("x"), "Data", TRUE, TRUE),
      Symbol(Some("sum"), "Text", FALSE, TRUE),
      Symbol(None, "Text", TRUE, TRUE) }

\* number of symbols of a table
MaxSymbols == 2

SymbolTables == UNION { [1..n -> SymbolPool] : n \in 0..MaxSymbols }

\* SymbolReader::new(&data)?.get_exported_symbols() on a binary with these
\* tables
GetExportedSymbols(dynamic_symbols, regular_symbols) ==
    /\ nops = 0
    /\ hist' = Remember(Call("get_exported_symbols", "binary", TypeRegistryNew,
                             dynamic_symbols, regular_symbols,
                             get_exported_symbols(dynamic_symbols, regular_symbols)))
    /\ nops' = nops + 1
    /\ UNCHANGED <<regs, inserted>>
    /\ UNCHANGED analysis_vars

NextSymbols ==
    \E dynamic_symbols \in SymbolTables, regular_symbols \in SymbolTables :
        GetExportedSymbols(dynamic_symbols, regular_symbols)

SpecSymbols == Init /\ [][NextSymbols]_vars

\* the names of the function-kind definitions of a table
FunctionNames(table) ==
    { Unwrap(table[i].name) :
        i \in { j \in 1..Len(table) :
                  table[j].is_definition /\ table[j].kind = "Text" /\ IsSome(table[j].name) } }

GlobalFunctionNames(table) ==
    { Unwrap(table[i].name) :
        i \in { j \in 1..Len(table) :
                  /\ table[j].is_definition /\ table[j].kind = "Text"
                  /\ table[j].is_global /\ IsSome(table[j].name) } }

\* C21: get_exported_symbols reads the regular symbol table if and only if
\* the dynamic symbol table is empty; with a dynamic table that has any entry
\* the result is the names of its function-kind definitions, and with the
\* fallback it is the names of the global function-kind definitions of the
\* regular table.
C21_FallbackOnlyForEmptyDynamicTable ==
    LastIs("get_exported_symbols") =>
        /\ hist[1].ret.regular_read <=> (hist[1].arg = <<>>)
        /\ hist[1].arg # <<>> => hist[1].ret.symbols = FunctionNames(hist[1].arg)
        /\ hist[1].arg = <<>> => hist[1].ret.symbols = GlobalFunctionNames(hist[1].other)

-----------------------------------------------------------------------------
(* Chains of pointer and qualifier DIEs *)

ChainTags == {"pointer_type", "const_type", "volatile_type"}

RECURSIVE ChainFrom(_, _, _)

\* the offsets from o on along the type references of pointer and qualifier
\* DIEs, up to the first DIE that is none of them or has no reference
ChainFrom(u, o, fuel) ==
    IF fuel = 0 \/ ~ContainsKey(u, o) THEN <<>>
    ELSE IF u[o].tag \in ChainTags /\ IsUnitRef(u[o].type)
    THEN <<o>> \o ChainFrom(u, Unwrap(u[o].type), fuel - 1)
    ELSE <<o>>

Chain(o) == ChainFrom(Unit, o, Len(Unit))

\* the number of DIEs of the chain with this tag
TagCount(chain, tag) == Cardinality({ i \in 1..Len(chain) : Unit[chain[i]].tag = tag })

\* the DIE the chain ends in; 0 for a chain that ends without a reference
ChainBase(chain) ==
    IF Unit[chain[Len(chain)]].tag \in ChainTags THEN 0 ELSE chain[Len(chain)]

\* the record t is what the chain from o denotes
ChainRecord(chain, t) ==
    /\ t.pointer_depth = TagCount(chain, "pointer_type")
    /\ t.is_const <=> TagCount(chain, "const_type") > 0
    /\ t.is_volatile <=> TagCount(chain, "volatile_type") > 0
    /\ ChainBase(chain) = 0 => t.kind = Primitive("void", 0, 1)
    /\ (ChainBase(chain) # 0 /\ Unit[ChainBase(chain)].tag = "base_type") =>
          /\ t.kind.tag = "Primitive"
          /\ t.kind.name = Unwrap(Unit[ChainBase(chain)].name)
          /\ t.kind.size = UnwrapOr(Unit[ChainBase(chain)].byte_size, 0)

SameChain(c, d) ==
    /\ ChainBase(c) = ChainBase(d)
    /\ \A tag \in ChainTags : (tag = "pointer_type" => TagCount(c, tag) = TagCount(d, tag))
                              /\ (TagCount(c, tag) > 0 <=> TagCount(d, tag) > 0)

\* C22: the record resolved for a chain of pointer, const and volatile DIEs
\* has the payload of the DIE the chain ends in (Primitive void of size 0
\* when the chain ends without a type reference), pointer_depth equal to the
\* number of pointer DIEs, is_const and is_volatile set iff the chain has a
\* const or a volatile DIE; and two chains over the same base with as many
\* pointers and the same qualifiers, in any order, got the same TypeId.
C22_ChainsAccumulate ==
    /\ (LastIs("build_type_registry_entry") /\ hist[1].ret.st = "Ok") =>
          /\ ContainsKey(type_registry.types, hist[1].ret.val)
          /\ ChainRecord(Chain(hist[1].arg), type_registry.types[hist[1].ret.val])
    /\ pc = "resolve" =>
          \A o1 \in DOMAIN resolved, o2 \in DOMAIN resolved :
              SameChain(Chain(o1), Chain(o2)) => resolved[o1][1] = resolved[o2][1]

\* `const char *` (offset 3) and `char *const` (offset 5) resolved to one
\* record, and `volatile void *` (offset 11) resolved last
C22_Witness ==
    /\ pc = "resolve" /\ Unit = ChainUnit
    /\ {3, 5} \subseteq DOMAIN resolved
    /\ resolved[3][1] = resolved[5][1]
    /\ SameContent(type_registry.types[resolved[3][1]],
                   Type(<<0>>, Primitive("char", 1, 1), 1, TRUE, FALSE, None))
    /\ LastIs("build_type_registry_entry") /\ hist[1].arg = 11
    /\ hist[1].ret.st = "Ok"
    /\ SameContent(type_registry.types[hist[1].ret.val],
                   Type(<<0>>, VoidKind, 1, FALSE, TRUE, None))

\* the record was registered for a chain of the current unit that ends in a
\* DIE with this tag
ResolvedFrom(t, tag) ==
    /\ unit_count > 0
    /\ IsSome(t.dwarf_offset)
    /\ ContainsKey(Unit, Unwrap(t.dwarf_offset))
    /\ ChainBase(Chain(Unwrap(t.dwarf_offset))) # 0
    /\ Unit[ChainBase(Chain(Unwrap(t.dwarf_offset)))].tag = tag

\* C23: the record resolved for a subroutine_type DIE, directly or behind
\* pointer and qualifier DIEs, is of kind Function: no return type when the
\* DIE has no type reference, one parameter type per formal-parameter child,
\* variadic iff it has an unspecified-parameters child.
C23_SubroutineIsFunction ==
    \A id \in DOMAIN type_registry.types :
        ResolvedFrom(type_registry.types[id], "subroutine_type") =>
            LET entry == Unit[ChainBase(Chain(Unwrap(type_registry.types[id].dwarf_offset)))]
                kind == type_registry.types[id].kind
            IN /\ kind.tag = "Function"
               /\ IsSome(kind.return_type_id) <=> IsUnitRef(entry.type)
               /\ Len(kind.parameter_type_ids) =
                     Cardinality({ i \in 1..Len(entry.children) :
                                     Unit[entry.children[i]].tag = "formal_parameter" })
               /\ kind.is_variadic <=>
                     \E i \in 1..Len(entry.children) :
                         Unit[entry.children[i]].tag = "unspecified_parameters"

\* the record under id is plain int: a primitive named int, no pointer, no
\* qualifier
IsCanonicalInt(reg, id) ==
    /\ ContainsKey(reg.types, id)
    /\ reg.types[id].kind.tag = "Primitive"
    /\ reg.types[id].kind.name = "int"
    /\ reg.types[id].pointer_depth = 0
    /\ ~reg.types[id].is_const
    /\ ~reg.types[id].is_volatile

\* C24: the record resolved for an enumeration_type DIE has size byte_size,
\* or 4 without one, one variant per enumerator child, and, when the DIE has
\* no type reference, a backing_id that denotes plain int, whichever records
\* named int were registered before.
C24_EnumBackingIsCanonicalInt ==
    (/\ LastIs("build_type_registry_entry") /\ hist[1].ret.st = "Ok"
     /\ Unit[hist[1].arg].tag = "enumeration_type") =>
        LET kind == type_registry.types[hist[1].ret.val].kind IN
        /\ kind.tag = "Enum"
        /\ kind.size = UnwrapOr(Unit[hist[1].arg].byte_size, 4)
        /\ Len(kind.variants) =
              Cardinality({ i \in 1..Len(Unit[hist[1].arg].children) :
                              Unit[Unit[hist[1].arg].children[i]].tag = "enumerator" })
        /\ ~IsUnitRef(Unit[hist[1].arg].type) =>
              IsCanonicalInt(type_registry, kind.backing_id)

-----------------------------------------------------------------------------
(* The name of a subprogram *)

\* a name attribute as text, when its bytes can be read and are UTF-8
Decoded(attr) ==
    IF IsSome(attr) /\ Unwrap(attr) \notin {BadStringRef, InvalidUtf8} THEN attr ELSE None

\* the first of the options that is a name
FirstOf(names) ==
    IF \E i \in 1..Len(names) : IsSome(names[i])
    THEN names[CHOOSE i \in 1..Len(names) :
                   IsSome(names[i]) /\ \A j \in 1..(i - 1) : ~IsSome(names[j])]
    ELSE None

\* the name of the DIE a reference attribute points to
ReferencedName(u, attr) ==
    IF IsUnitRef(attr) /\ ContainsKey(u, Unwrap(attr))
    THEN FirstOf(<<Decoded(u[Unwrap(attr)].linkage_name), Decoded(u[Unwrap(attr)].name)>>)
    ELSE None

\* linkage name, regular name, name of the specification, name of the
\* abstract origin
NameInOrder(u, entry) ==
    FirstOf(<<Decoded(entry.linkage_name), Decoded(entry.name),
              ReferencedName(u, entry.specification),
              ReferencedName(u, entry.abstract_origin)>>)

\* C25: a subprogram that is being extracted bears the first name found in
\* the order linkage name, regular name, name of the specification, name of
\* the abstract origin, a name whose bytes cannot be decoded counting as not
\* found; a subprogram without such a name is skipped.
C25_NameOrder ==
    pc \in {"return_type", "parameters"} =>
        NameInOrder(Unit, FuncEntry) = Some(sig.name)

-----------------------------------------------------------------------------
(* Parameters *)

\* C26: the parameters gathered from the children passed so far are, in
\* child order, one per direct child tagged formal_parameter, with the empty
\* name when the child has no name and the canonical void when it has no
\* type reference; is_variadic is set iff one of these children is tagged
\* unspecified_parameters; other children, and DIEs below a child, add
\* nothing.
C26_ParametersFromDirectChildren ==
    pc = "parameters" =>
        /\ Len(sig.parameters) = Len(FormalsAmong(Unit, FuncEntry.children, sig.child_pos))
        /\ \A i \in 1..Len(sig.parameters) :
              /\ sig.parameters[i].name =
                    UnwrapOr(Decoded(FormalsAmong(Unit, FuncEntry.children, sig.child_pos)[i].name), "")
              /\ ContainsKey(type_registry.types, sig.parameters[i].type_id)
              /\ ~IsUnitRef(FormalsAmong(Unit, FuncEntry.children, sig.child_pos)[i].type)
                    => IsCanonicalVoid(type_registry, sig.parameters[i].type_id)
        /\ sig.is_variadic <=>
              \E j \in 1..sig.child_pos :
                  Unit[FuncEntry.children[j]].tag = "unspecified_parameters"

\* ParamUnit walked to its end: sum(int, void a, ...) and add() came out,
\* the parameters inside the lexical blocks did not
C26_Witness ==
    /\ pc = "entries" /\ unit_count > 0
    /\ Unit = ParamUnit /\ die_pos = Len(Unit)
    /\ Len(signatures) = 2
    /\ signatures[1].name = "sum" /\ signatures[1].is_variadic
    /\ Len(signatures[1].parameters) = 2
    /\ signatures[1].parameters[1].name = "" /\ signatures[1].parameters[2].name = "a"
    /\ IsCanonicalVoid(type_registry, signatures[1].parameters[2].type_id)
    /\ signatures[2].name = "add" /\ ~signatures[2].is_variadic
    /\ signatures[2].parameters = <<>>

-----------------------------------------------------------------------------
(* Arrays *)

\* the subrange children of an array DIE that carry a count or an upper bound
Bounded(entry) ==
    { i \in 1..Len(entry.children) :
        /\ Unit[entry.children[i]].tag = "subrange_type"
        /\ IsSome(Unit[entry.children[i]].count)
              \/ IsSome(Unit[entry.children[i]].upper_bound) }

\* the count attribute, else upper_bound + 1, of a subrange
CountOf(subrange) ==
    IF IsSome(subrange.count) THEN Unwrap(subrange.count)
    ELSE Unwrap(subrange.upper_bound) + 1

\* the count of the first bounded subrange child, 0 when there is none
ArrayCount(entry) ==
    IF Bounded(entry) = {} THEN 0
    ELSE CountOf(Unit[entry.children[CHOOSE i \in Bounded(entry) :
                                         \A j \in Bounded(entry) : i <= j]])

\* C27: resolving an array DIE returns a record whose count is that of the
\* first subrange child with a count or an upper bound (the count attribute,
\* else upper_bound + 1, for every upper bound up to the largest one), 0
\* without such a child, and whose size is the element size times the count.
C27_ArrayCountAndSize ==
    (LastIs("build_type_registry_entry") /\ Unit[hist[1].arg].tag = "array_type") =>
        /\ hist[1].ret.st = "Ok"
        /\ type_registry.types[hist[1].ret.val].kind.tag = "Array"
        /\ type_registry.types[hist[1].ret.val].kind.count = ArrayCount(Unit[hist[1].arg])
        /\ type_registry.types[hist[1].ret.val].kind.size =
              SizeOfKind(type_registry.types[
                  type_registry.types[hist[1].ret.val].kind.element_type_id].kind)
                * ArrayCount(Unit[hist[1].arg])

-----------------------------------------------------------------------------
(* The indexes of a registry *)

\* how often the record t occurs in the list
Occurrences(list, t) == Cardinality({ i \in 1..Len(list) : list[i] = t })

\* names no record of InputTypes bears
UnregisteredNames == {"char", "void", "Point", "<array>"}

\* C28: in every registry built by register_type and merge, get_by_name of
\* the name of a stored record contains that record exactly once, every
\* TypeId in the name index and in the DWARF-offset index is a key of the
\* registry, and get_by_name of a name never registered is empty.
C28_IndexesConsistent ==
    \A r \in RegNames :
        /\ \A id \in DOMAIN regs[r].types :
              Occurrences(get_by_name(regs[r], get_name(regs[r].types[id])),
                          regs[r].types[id]) = 1
        /\ \A n \in DOMAIN regs[r].name_to_ids :
              \A i \in 1..Len(regs[r].name_to_ids[n]) :
                  ContainsKey(regs[r].types, regs[r].name_to_ids[n][i])
        /\ \A o \in DOMAIN regs[r].dwarf_to_id :
              ContainsKey(regs[r].types, regs[r].dwarf_to_id[o])
        /\ \A n \in UnregisteredNames : get_by_name(regs[r], n) = <<>>

\* after a merge into a registry that held one of them, `int` and `int *`
\* share the name list of "int", next to the enum Status under its own name
C28_Witness ==
    /\ LastIs("merge")
    /\ Len(get_by_name(hist[1].pre, "int")) = 1
    /\ Len(get_by_name(regs[hist[1].self], "int")) = 2
    /\ Len(get_by_name(regs[hist[1].self], "Status")) = 1

Emitted == Elems(signatures) \cup Elems(all_signatures)

Building == IF pc \in {"return_type", "parameters"} THEN {sig} ELSE {}

\* C30 as stated: every signature has is_exported = true, in both modes;
\* with a symbol set read, no signature is built for a function whose name
\* is not in the set.
C30_AlwaysExported ==
    /\ \A s \in Emitted \cup Building : s.is_exported
    /\ IsSome(exported_symbols) =>
          \A s \in Elems(signatures) \cup Building : s.name \in Unwrap(exported_symbols)

\* C30, amended: every signature has is_exported = true, in both modes;
\* with a symbol set read, no signature is built for a function when
\* neither its name nor `_` followed by its name is in the set.
C30_AlwaysExportedUnderscoreProbed ==
    /\ \A s \in Emitted \cup Building : s.is_exported
    /\ IsSome(exported_symbols) =>
          \A s \in Elems(signatures) \cup Building :
              \/ s.name \in Unwrap(exported_symbols)
              \/ Underscored(s.name) \in Unwrap(exported_symbols)

\* extract_analysis has returned with a symbol set read, and one of the
\* returned signatures is of a function kept by its underscored name only
C30_Witness ==
    /\ pc = "done"
    /\ IsSome(exported_symbols)
    /\ \E s \in Elems(all_signatures) :
          /\ s.is_exported
          /\ s.name \notin Unwrap(exported_symbols)
          /\ Underscored(s.name) \in Unwrap(exported_symbols)

====
